---- MODULE Spec2Model ----
(***************************************************************************)
(* A model of spikeAnalysisToolsV2 (helper.py, data_loading.py).           *)
(*                                                                         *)
(* Python lists are modelled as sequences: the element with Python index k *)
(* is element k+1 of the sequence.  A call that raises is modelled by a    *)
(* result record whose kind is "raise"; a call that returns by a record    *)
(* whose kind is "ok".  Every subsystem has its own variables and its own  *)
(* specification; the variables of the other subsystems stay idle.         *)
(***************************************************************************)
EXTENDS Integers, Sequences, FiniteSets, TLC

VARIABLES
    \* ---- neuron addressing (helper.py: id_to_position, position_to_id)
    network_info,     \* the architecture dict
    a_id,             \* the global neuron id handed to id_to_position
    a_pc,             \* "start" | "positioned" | "done"
    a_position,       \* result of id_to_position
    a_back,           \* result of position_to_id on that position
    \* ---- get_spikes (data_loading.py)
    gs_args,          \* [binaryfile, input_neurons]
    gs_files,         \* the ids file and the times file of the folder
    gs_pc,            \* position in get_spikes
    idfile,           \* handle of the ids file: "unbound" | "open" | "closed"
    timesfile,        \* handle of the times file
    gs_row,           \* number of rows the current csv reader has yielded
    spike_ids,        \* list accumulated from the ids file
    spike_times,      \* list accumulated from the times file
    gs_result,        \* what get_spikes returned or raised
    \* ---- load_spikes_from_subfolders (data_loading.py)
    ls_args,          \* [subfolders, extensions, input_layer]
    ls_pc,            \* "subfol" | "ext" | "returned" | "raised"
    ls_s,             \* number of subfolders finished
    ls_e,             \* number of extensions loaded in the current subfolder
    all_extensions,   \* the per-extension accumulator, unbound at first
    all_subfolders,   \* the list that is returned
    ls_loaded,        \* every folder pandas_load_spikes was called on, in order
    \* ---- load_testing_stimuli_info (data_loading.py)
    ts_file,          \* testing_list.txt: absent, or present with its lines
    ts_pc,            \* "open" | "loop" | "returned" | "raised"
    ts_line,          \* number of lines read
    objects,          \* the finished accumulators
    current_object,   \* the accumulator in progress
    current_stim_index,\* the running stimulus index
    proper,           \* the returned list
    \* ---- label conversions (helper.py: ids_to_bool_array, bool_label_matrix_to_mutually_exclusive_ids)
    lb_ids,           \* the nested list handed to ids_to_bool_array, if any
    bool_array,       \* the boolean label matrix [n_objects, n_stimuli]
    lb_pc,            \* "ids" | "matrix" | "done" | "raised"
    collector,        \* result of bool_label_matrix_to_mutually_exclusive_ids
    \* ---- one call of a function of helper.py on tables or arrays
    fn_args,          \* the arguments of the call
    fn_result         \* what the call returned or raised; none before it

addrVars == <<network_info, a_id, a_pc, a_position, a_back>>
spikesVars == <<gs_args, gs_files, gs_pc, idfile, timesfile, gs_row,
                spike_ids, spike_times, gs_result>>
subVars == <<ls_args, ls_pc, ls_s, ls_e, all_extensions, all_subfolders,
             ls_loaded>>
stimVars == <<ts_file, ts_pc, ts_line, objects, current_object,
              current_stim_index, proper>>
labelVars == <<lb_ids, bool_array, lb_pc, collector>>
fnVars == <<fn_args, fn_result>>

vars == <<addrVars, spikesVars, subVars, stimVars, labelVars, fnVars>>

\* what an action of one subsystem leaves alone
notAddr == <<spikesVars, subVars, stimVars, labelVars, fnVars>>
notSpikes == <<addrVars, subVars, stimVars, labelVars, fnVars>>
notSub == <<addrVars, spikesVars, stimVars, labelVars, fnVars>>
notStim == <<addrVars, spikesVars, subVars, labelVars, fnVars>>
notLabel == <<addrVars, spikesVars, subVars, stimVars, fnVars>>
notFn == <<addrVars, spikesVars, subVars, stimVars, labelVars>>

None == [kind |-> "none"]
Raise(e) == [kind |-> "raise", err |-> e]

\* the state of every subsystem but g before any call of it
IdleExcept(g) ==
    /\ g # "addr" =>
          /\ network_info = None
          /\ a_id = 0
          /\ a_pc = "idle"
          /\ a_position = None
          /\ a_back = None
    /\ g # "spikes" =>
          /\ gs_args = None
          /\ gs_files = None
          /\ gs_pc = "idle"
          /\ idfile = "unbound"
          /\ timesfile = "unbound"
          /\ gs_row = 0
          /\ spike_ids = <<>>
          /\ spike_times = <<>>
          /\ gs_result = None
    /\ g # "sub" =>
          /\ ls_args = None
          /\ ls_pc = "idle"
          /\ ls_s = 0
          /\ ls_e = 0
          /\ all_extensions = None
          /\ all_subfolders = <<>>
          /\ ls_loaded = <<>>
    /\ g # "stim" =>
          /\ ts_file = None
          /\ ts_pc = "idle"
          /\ ts_line = 0
          /\ objects = <<>>
          /\ current_object = None
          /\ current_stim_index = 0
          /\ proper = <<>>
    /\ g # "label" =>
          /\ lb_ids = None
          /\ bool_array = None
          /\ lb_pc = "idle"
          /\ collector = None
    /\ g # "fn" =>
          /\ fn_args = None
          /\ fn_result = None

(***************************************************************************)
(* Bounds of the model.                                                    *)
(***************************************************************************)
MaxPop == 9
MaxLayers == 2

(***************************************************************************)
(* helper.py: square roots.  np.sqrt(n) % 1 != 0 is true exactly when n is *)
(* not a perfect square; int(np.sqrt(n)) is then the integer root.         *)
(***************************************************************************)
ISqrt(n) == CHOOSE s \in 0..n : s * s <= n /\ (s + 1) * (s + 1) > n

IsSquare(n) == ISqrt(n) * ISqrt(n) = n

\* the check of line 218 left out: the root is truncated
get_side_length_truncating(n_in_layer_type) ==
    [kind |-> "ok", val |-> ISqrt(n_in_layer_type)]

get_side_length(n_in_layer_type) ==
    IF ~IsSquare(n_in_layer_type)
    THEN Raise("RuntimeError")
    ELSE [kind |-> "ok", val |-> ISqrt(n_in_layer_type)]

(***************************************************************************)
(* helper.py: id_to_position.  Integer division by a total of 0 raises.    *)
(***************************************************************************)
id_to_position(id, info, pos_as_2d) ==
    LET total == info.num_exc_neurons_per_layer + info.num_inh_neurons_per_layer
    IN  IF total = 0 THEN Raise("ZeroDivisionError")
        ELSE
        LET layer == id \div total
            within == id - (layer * total)
            exc_neuron == within < info.num_exc_neurons_per_layer
            n_in_layer_type == IF exc_neuron THEN info.num_exc_neurons_per_layer
                               ELSE info.num_inh_neurons_per_layer
            id_within_layer == IF exc_neuron THEN within
                               ELSE within - info.num_exc_neurons_per_layer
        IN  IF pos_as_2d
            THEN LET side == get_side_length(n_in_layer_type)
                 IN  IF side.kind = "raise" THEN side
                     ELSE IF side.val = 0 THEN Raise("ZeroDivisionError")
                     ELSE LET x == id_within_layer \div side.val
                              y == id_within_layer % side.val
                          IN  [kind |-> "ok", exc |-> exc_neuron,
                               pos |-> <<layer, y, x>>]
            ELSE [kind |-> "ok", exc |-> exc_neuron,
                  pos |-> <<layer, id_within_layer>>]

(***************************************************************************)
(* helper.py: position_to_id.  pos is a tuple of length 3 (layer, line,    *)
(* column) or of length 2 (layer, id within the layer).  The side length   *)
(* is a float; the result is numerically the integer computed here.        *)
(***************************************************************************)
grid_neuron_id_row_major(line, column, side_length) ==
    (line * side_length) + column

grid_neuron_id(line, column, side_length) ==
    (column * side_length) + line

\* the check of line 209 left out
position_to_id_unchecked(pos, is_excitatory, info) ==
    LET total == info.num_exc_neurons_per_layer + info.num_inh_neurons_per_layer
        n_in_layer_type == IF is_excitatory THEN info.num_exc_neurons_per_layer
                           ELSE info.num_inh_neurons_per_layer
        first_in_layer_id == IF is_excitatory THEN pos[1] * total
                             ELSE pos[1] * total + info.num_exc_neurons_per_layer
        neuron_id == IF Len(pos) = 3
                     THEN grid_neuron_id(pos[2], pos[3], ISqrt(n_in_layer_type))
                     ELSE pos[2]
    IN  [kind |-> "ok", val |-> first_in_layer_id + neuron_id]

position_to_id(pos, is_excitatory, info) ==
    IF Len(pos) \notin {2, 3} THEN Raise("ValueError")
    ELSE
    LET layer == pos[1]
        total == info.num_exc_neurons_per_layer + info.num_inh_neurons_per_layer
        n_in_layer_type == IF is_excitatory THEN info.num_exc_neurons_per_layer
                           ELSE info.num_inh_neurons_per_layer
        first_in_layer_id == IF is_excitatory THEN layer * total
                             ELSE layer * total + info.num_exc_neurons_per_layer
        side_length == ISqrt(n_in_layer_type)
        neuron_id == IF Len(pos) = 3 THEN grid_neuron_id(pos[2], pos[3], side_length)
                     ELSE pos[2]
    IN  IF ~IsSquare(n_in_layer_type) THEN Raise("RuntimeError")
        ELSE [kind |-> "ok", val |-> first_in_layer_id + neuron_id]

(***************************************************************************)
(* Addressing: the architectures and ids the round trip is run on.         *)
(***************************************************************************)
Architectures ==
    [num_exc_neurons_per_layer : 0..MaxPop,
     num_inh_neurons_per_layer : 0..MaxPop,
     num_layers : 1..MaxLayers]

TotalNeurons(info) ==
    info.num_layers * (info.num_exc_neurons_per_layer + info.num_inh_neurons_per_layer)

AddrInit ==
    /\ network_info \in Architectures
    /\ a_id \in 0..(TotalNeurons(network_info) - 1)
    /\ a_pc = "start"
    /\ a_position = None
    /\ a_back = None
    /\ IdleExcept("addr")

IdToPosition ==
    /\ a_pc = "start"
    /\ a_position' = id_to_position(a_id, network_info, TRUE)
    /\ a_pc' = "positioned"
    /\ UNCHANGED <<network_info, a_id, a_back>>
    /\ UNCHANGED notAddr

PositionToId ==
    /\ a_pc = "positioned"
    /\ a_position.kind = "ok"
    /\ a_back' = position_to_id(a_position.pos, a_position.exc, network_info)
    /\ a_pc' = "done"
    /\ UNCHANGED <<network_info, a_id, a_position>>
    /\ UNCHANGED notAddr

AddrNext == IdToPosition \/ PositionToId

BothSquare(info) ==
    /\ IsSquare(info.num_exc_neurons_per_layer)
    /\ IsSquare(info.num_inh_neurons_per_layer)

\* C1: on an architecture whose two per-layer counts are perfect squares,
\* id_to_position of any in-range id returns a position, and position_to_id
\* of that position and excitatory flag returns the id it started from.
C1_RoundTrip ==
    BothSquare(network_info) =>
        /\ a_pc = "positioned" => a_position.kind = "ok"
        /\ a_pc = "done" => a_back = [kind |-> "ok", val |-> a_id]

\* An inhibitory neuron off the first grid column, in a layer after the
\* first, has made the round trip.
C1_Witness ==
    /\ a_pc = "done"
    /\ BothSquare(network_info)
    /\ a_position.kind = "ok"
    /\ ~a_position.exc
    /\ a_position.pos[1] > 0
    /\ a_position.pos[2] > 0
    /\ a_position.pos[3] > 0

(***************************************************************************)
(* data_loading.py: get_spikes.  The folder holds an ids file and a times  *)
(* file, each missing or a sequence of text lines.  A line is one of       *)
(*   "7"    int("7") = 7 and float("7") = 7.0                              *)
(*   "1.5"  int raises ValueError, float("1.5") = 1.5                      *)
(*   ""     csv.reader yields the empty row, row[0] raises IndexError      *)
(* Floats are kept in tenths (7.0 is 70, 1.5 is 15).                       *)
(***************************************************************************)
MaxLines == 2

Lines == {"7", "1.5", ""}

RECURSIVE SeqsUpTo(_, _)
SeqsUpTo(S, n) ==
    IF n = 0 THEN {<<>>}
    ELSE LET shorter == SeqsUpTo(S, n - 1)
         IN  shorter \cup {Append(q, x) : q \in {r \in shorter : Len(r) = n - 1}, x \in S}

\* a file of the folder: absent, or present with its lines
TextFiles ==
    {[exists |-> FALSE, lines |-> <<>>]}
        \cup [exists : {TRUE}, lines : SeqsUpTo(Lines, MaxLines)]

int_of_row(line) ==
    IF line = "" THEN Raise("IndexError")
    ELSE IF line = "7" THEN [kind |-> "ok", val |-> 7]
    ELSE Raise("ValueError")

float_of_row(line) ==
    IF line = "" THEN Raise("IndexError")
    ELSE IF line = "7" THEN [kind |-> "ok", val |-> 70]
    ELSE IF line = "1.5" THEN [kind |-> "ok", val |-> 15]
    ELSE Raise("ValueError")

id_filename(input_neurons) ==
    IF input_neurons THEN <<"Input_", "Neurons_SpikeIDs_Untrained_Epoch0">>
    ELSE <<"Neurons_SpikeIDs_Untrained_Epoch0">>

times_filename(input_neurons) ==
    IF input_neurons THEN <<"Input_", "Neurons_SpikeTimes_Untrained_Epoch0">>
    ELSE <<"Neurons_SpikeTimes_Untrained_Epoch0">>

SpikesInit ==
    /\ gs_args \in [binaryfile : BOOLEAN, input_neurons : BOOLEAN]
    /\ gs_files \in [ids : TextFiles, times : TextFiles]
    /\ gs_pc = "start"
    /\ idfile = "unbound"
    /\ timesfile = "unbound"
    /\ gs_row = 0
    /\ spike_ids = <<>>
    /\ spike_times = <<>>
    /\ gs_result = None
    /\ IdleExcept("spikes")

\* lines 40-47: np.fromfile on both .bin files; no handle of this function.
GetSpikesBinary ==
    /\ gs_pc = "start"
    /\ gs_args.binaryfile
    /\ IF ~gs_files.ids.exists \/ ~gs_files.times.exists
       THEN /\ gs_result' = Raise("FileNotFoundError")
            /\ gs_pc' = "raised"
       ELSE /\ gs_result' = [kind |-> "ok",
                             ids |-> <<id_filename(gs_args.input_neurons), ".bin">>,
                             times |-> <<times_filename(gs_args.input_neurons), ".bin">>]
            /\ gs_pc' = "returned"
    /\ UNCHANGED <<gs_args, gs_files, idfile, timesfile, gs_row, spike_ids, spike_times>>
    /\ UNCHANGED notSpikes

\* lines 50-51: idfile = open(... + '.txt', 'r')
OpenIdFile ==
    /\ gs_pc = "start"
    /\ ~gs_args.binaryfile
    /\ IF ~gs_files.ids.exists
       THEN /\ gs_result' = Raise("FileNotFoundError")
            /\ gs_pc' = "raised"
            /\ UNCHANGED idfile
       ELSE /\ idfile' = "open"
            /\ gs_pc' = "open_times"
            /\ UNCHANGED gs_result
    /\ UNCHANGED <<gs_args, gs_files, timesfile, gs_row, spike_ids, spike_times>>
    /\ UNCHANGED notSpikes

\* lines 52-53: timesfile = open(... + '.txt', 'r'), outside any try
OpenTimesFile ==
    /\ gs_pc = "open_times"
    /\ IF ~gs_files.times.exists
       THEN /\ gs_result' = Raise("FileNotFoundError")
            /\ gs_pc' = "raised"
            /\ UNCHANGED timesfile
       ELSE /\ timesfile' = "open"
            /\ gs_pc' = "read_ids"
            /\ UNCHANGED gs_result
    /\ UNCHANGED <<gs_args, gs_files, idfile, gs_row, spike_ids, spike_times>>
    /\ UNCHANGED notSpikes

\* lines 56-59: one row of the ids reader; a row that does not parse raises
\* into the finally clause.
ReadIdRow ==
    /\ gs_pc = "read_ids"
    /\ IF gs_row < Len(gs_files.ids.lines)
       THEN LET v == int_of_row(gs_files.ids.lines[gs_row + 1])
            IN  IF v.kind = "ok"
                THEN /\ spike_ids' = Append(spike_ids, v.val)
                     /\ gs_row' = gs_row + 1
                     /\ UNCHANGED <<gs_pc, gs_result>>
                ELSE /\ gs_result' = v
                     /\ gs_pc' = "ids_finally"
                     /\ UNCHANGED <<spike_ids, gs_row>>
       ELSE /\ gs_pc' = "ids_finally"
            /\ UNCHANGED <<spike_ids, gs_row, gs_result>>
    /\ UNCHANGED <<gs_args, gs_files, idfile, timesfile, spike_times>>
    /\ UNCHANGED notSpikes

\* lines 60-61: finally: idfile.close(); a pending exception leaves the
\* function here.
CloseIdFile ==
    /\ gs_pc = "ids_finally"
    /\ idfile' = "closed"
    /\ gs_row' = 0
    /\ gs_pc' = IF gs_result.kind = "raise" THEN "raised" ELSE "read_times"
    /\ UNCHANGED <<gs_args, gs_files, timesfile, spike_ids, spike_times, gs_result>>
    /\ UNCHANGED notSpikes

\* lines 63-66: one row of the times reader
ReadTimeRow ==
    /\ gs_pc = "read_times"
    /\ IF gs_row < Len(gs_files.times.lines)
       THEN LET v == float_of_row(gs_files.times.lines[gs_row + 1])
            IN  IF v.kind = "ok"
                THEN /\ spike_times' = Append(spike_times, v.val)
                     /\ gs_row' = gs_row + 1
                     /\ UNCHANGED <<gs_pc, gs_result>>
                ELSE /\ gs_result' = v
                     /\ gs_pc' = "times_finally"
                     /\ UNCHANGED <<spike_times, gs_row>>
       ELSE /\ gs_pc' = "times_finally"
            /\ UNCHANGED <<spike_times, gs_row, gs_result>>
    /\ UNCHANGED <<gs_args, gs_files, idfile, timesfile, spike_ids>>
    /\ UNCHANGED notSpikes

\* lines 67-68: finally: timesfile.close()
CloseTimesFile ==
    /\ gs_pc = "times_finally"
    /\ timesfile' = "closed"
    /\ gs_pc' = IF gs_result.kind = "raise" THEN "raised" ELSE "return"
    /\ UNCHANGED <<gs_args, gs_files, idfile, gs_row, spike_ids, spike_times, gs_result>>
    /\ UNCHANGED notSpikes

\* lines 69-70: the two arrays.  np.int and np.float are aliases some numpy
\* releases do not have; there the conversion raises AttributeError.
GetSpikesReturn ==
    /\ gs_pc = "return"
    /\ \/ /\ gs_result' = [kind |-> "ok", ids |-> spike_ids, times |-> spike_times]
          /\ gs_pc' = "returned"
       \/ /\ gs_result' = Raise("AttributeError")
          /\ gs_pc' = "raised"
    /\ UNCHANGED <<gs_args, gs_files, idfile, timesfile, gs_row, spike_ids, spike_times>>
    /\ UNCHANGED notSpikes

SpikesNext ==
    \/ GetSpikesBinary
    \/ OpenIdFile
    \/ OpenTimesFile
    \/ ReadIdRow
    \/ CloseIdFile
    \/ ReadTimeRow
    \/ CloseTimesFile
    \/ GetSpikesReturn

\* C2: in text mode, on every exit of get_spikes (return or raise) no file
\* handle that was opened is still open.
C2_NoHandleLeftOpen ==
    (gs_pc \in {"returned", "raised"} /\ ~gs_args.binaryfile) =>
        (idfile # "open" /\ timesfile # "open")

(***************************************************************************)
(* data_loading.py: load_spikes_from_subfolders.  A spike table is known   *)
(* by the folder it was loaded from, masterpath/subfol/ext/, and by        *)
(* whether the Input_ files were read.  A load may fail (np.fromfile on a  *)
(* missing file raises), which ends the call.                              *)
(***************************************************************************)
MaxSubfolders == 2
MaxExtensions == 2

pandas_load_spikes(subfol, ext, input_neurons) ==
    [path |-> <<"masterpath", "/", subfol, "/", ext, "/">>,
     input_neurons |-> input_neurons]

\* lines 95 and 98: all_extensions = list() inside the extension loop,
\* then append
input_layer_accumulate_kept(accumulated, spikes) ==
    IF accumulated.kind = "list" THEN Append(accumulated.list, spikes)
    ELSE <<spikes>>

input_layer_accumulate(accumulated, spikes) == <<spikes>>

SubInit ==
    /\ ls_args \in [subfolders : SeqsUpTo({"s1", "s2"}, MaxSubfolders),
                    extensions : SeqsUpTo({"e1", "e2"}, MaxExtensions),
                    input_layer : BOOLEAN]
    /\ ls_pc = "subfol"
    /\ ls_s = 0
    /\ ls_e = 0
    /\ all_extensions = None
    /\ all_subfolders = <<>>
    /\ ls_loaded = <<>>
    /\ IdleExcept("sub")

\* lines 91 / 102-103: the next subfolder, or the return after the last;
\* only the branch without the input-layer flag resets the accumulator here
NextSubfolder ==
    /\ ls_pc = "subfol"
    /\ IF ls_s < Len(ls_args.subfolders)
       THEN /\ ls_pc' = "ext"
            /\ ls_e' = 0
            /\ all_extensions' = IF ls_args.input_layer THEN all_extensions
                                 ELSE [kind |-> "list", list |-> <<>>]
       ELSE /\ ls_pc' = "returned"
            /\ UNCHANGED <<ls_e, all_extensions>>
    /\ UNCHANGED <<ls_args, ls_s, all_subfolders, ls_loaded>>
    /\ UNCHANGED notSub

\* lines 94-98 / 104-107: one extension of the current subfolder
LoadExtension ==
    /\ ls_pc = "ext"
    /\ ls_e < Len(ls_args.extensions)
    /\ LET subfol == ls_args.subfolders[ls_s + 1]
           ext == ls_args.extensions[ls_e + 1]
           spikes == pandas_load_spikes(subfol, ext, ls_args.input_layer)
       IN  /\ ls_loaded' = Append(ls_loaded, <<subfol, ext>>)
           /\ \/ /\ all_extensions' =
                       [kind |-> "list",
                        list |-> IF ls_args.input_layer
                                 THEN input_layer_accumulate(all_extensions, spikes)
                                 ELSE Append(all_extensions.list, spikes)]
                 /\ ls_e' = ls_e + 1
                 /\ UNCHANGED ls_pc
              \/ /\ ls_pc' = "raised"
                 /\ UNCHANGED <<all_extensions, ls_e>>
    /\ UNCHANGED <<ls_args, ls_s, all_subfolders>>
    /\ UNCHANGED notSub

\* lines 100 / 109: all_subfolders.append(all_extensions); the name is
\* unbound when the flag is set and no extension has ever been loaded
AppendSubfolder ==
    /\ ls_pc = "ext"
    /\ ls_e = Len(ls_args.extensions)
    /\ IF all_extensions.kind = "list"
       THEN /\ all_subfolders' = Append(all_subfolders, all_extensions.list)
            /\ ls_s' = ls_s + 1
            /\ ls_pc' = "subfol"
       ELSE /\ ls_pc' = "raised"
            /\ UNCHANGED <<all_subfolders, ls_s>>
    /\ UNCHANGED <<ls_args, ls_e, all_extensions, ls_loaded>>
    /\ UNCHANGED notSub

SubNext == NextSubfolder \/ LoadExtension \/ AppendSubfolder

MaxFileLines == 4

ListingLines == {"a", "b", "*", " *", ""}

\* line.strip() on the lines above
strip(line) == IF line = " *" THEN "*" ELSE line

new_object == [count |-> 0, elements |-> {}, indices |-> <<>>]

\* lines 131-133: the else branch of the loop body
add_stimulus_skipping_blank(obj, raw_text, index) ==
    IF raw_text = "" THEN obj
    ELSE [count |-> obj.count + 1,
          elements |-> obj.elements \cup {raw_text},
          indices |-> Append(obj.indices, index)]

add_stimulus(obj, raw_text, index) ==
    [count |-> obj.count + 1,
     elements |-> obj.elements \cup {raw_text},
     indices |-> Append(obj.indices, index)]

\* line 137
proper_objects(objs) == SelectSeq(objs, LAMBDA obj : obj.count # 0)

StimInit ==
    /\ ts_file \in {[exists |-> FALSE, lines |-> <<>>]}
                     \cup [exists : {TRUE}, lines : SeqsUpTo(ListingLines, MaxFileLines)]
    /\ ts_pc = "open"
    /\ ts_line = 0
    /\ objects = <<>>
    /\ current_object = new_object
    /\ current_stim_index = 0
    /\ proper = <<>>
    /\ IdleExcept("stim")

\* lines 120-123
OpenListing ==
    /\ ts_pc = "open"
    /\ ts_pc' = IF ts_file.exists THEN "loop" ELSE "raised"
    /\ UNCHANGED <<ts_file, ts_line, objects, current_object, current_stim_index, proper>>
    /\ UNCHANGED notStim

\* lines 124-134: one line of the file
ReadListingLine ==
    /\ ts_pc = "loop"
    /\ ts_line < Len(ts_file.lines)
    /\ LET raw_text == strip(ts_file.lines[ts_line + 1])
       IN  IF raw_text = "*"
           THEN /\ objects' = Append(objects, current_object)
                /\ current_object' = new_object
                /\ UNCHANGED current_stim_index
           ELSE /\ current_object' =
                      add_stimulus(current_object, raw_text, current_stim_index)
                /\ current_stim_index' = current_stim_index + 1
                /\ UNCHANGED objects
    /\ ts_line' = ts_line + 1
    /\ UNCHANGED <<ts_file, ts_pc, proper>>
    /\ UNCHANGED notStim

\* lines 135-138: after the last line
ReturnProperObjects ==
    /\ ts_pc = "loop"
    /\ ts_line = Len(ts_file.lines)
    /\ objects' = Append(objects, current_object)
    /\ proper' = proper_objects(Append(objects, current_object))
    /\ ts_pc' = "returned"
    /\ UNCHANGED <<ts_file, ts_line, current_object, current_stim_index>>
    /\ UNCHANGED notStim

StimNext == OpenListing \/ ReadListingLine \/ ReturnProperObjects

\* The blocks of a sequence of lines: the maximal runs of lines between
\* the lines of delims, in order (the last block may be empty).
RECURSIVE C4_Blocks(_, _)
C4_Blocks(lines, delims) ==
    IF \A k \in 1..Len(lines) : lines[k] \notin delims THEN <<lines>>
    ELSE LET d == CHOOSE k \in 1..Len(lines) :
                     lines[k] \in delims /\ \A j \in 1..(k - 1) : lines[j] \notin delims
         IN  <<SubSeq(lines, 1, d - 1)>>
                 \o C4_Blocks(SubSeq(lines, d + 1, Len(lines)), delims)

\* what is to be returned for the blocks: per block its lines outside
\* skipped, counted, and the set of their labels; blocks with none are
\* left out
C4_Expected(blocks, skipped) ==
    LET counted(b) == {j \in 1..Len(b) : b[j] \notin skipped}
        obj(b) == [count |-> Cardinality(counted(b)),
                   elements |-> {strip(b[j]) : j \in counted(b)}]
        all == [k \in 1..Len(blocks) |-> obj(blocks[k])]
    IN  SelectSeq(all, LAMBDA o : o.count # 0)

C4_Returned ==
    [k \in 1..Len(proper) |->
        [count |-> proper[k].count, elements |-> proper[k].elements]]

\* C4 as stated: blocks end at the "*" lines; count is the number of
\* non-empty non-delimiter lines of the block, elements the set of their
\* labels; blocks of count 0 are not returned.
C4_AsStated ==
    ts_pc = "returned" =>
        C4_Returned = C4_Expected(C4_Blocks(ts_file.lines, {"*", " *"}), {""})

\* C4: blocks end at every line whose stripped text is "*"; each returned
\* object has as count the number of lines of its block, blank lines
\* included, and as elements the set of their stripped texts (the empty
\* label for a blank line); blocks without any line are not returned; the
\* objects are in file order.
C4_BlocksCounted ==
    ts_pc = "returned" =>
        C4_Returned = C4_Expected(C4_Blocks(ts_file.lines, {"*", " *"}), {})

\* A listing with a blank line, an empty block between two delimiters and
\* a labelled block has been parsed: the blank line's block is returned,
\* the empty block is not.
C4_Witness ==
    /\ ts_pc = "returned"
    /\ \E k \in 1..Len(ts_file.lines) : ts_file.lines[k] = ""
    /\ \E k \in 1..(Len(ts_file.lines) - 1) :
          strip(ts_file.lines[k]) = "*" /\ strip(ts_file.lines[k + 1]) = "*"
    /\ Len(proper) = 2
    /\ Len(objects) = 3

(***************************************************************************)
(* helper.py: label conversions.  A boolean matrix is its shape and its    *)
(* rows; row o+1, column s+1 of the model is bool_array[o, s].             *)
(***************************************************************************)
MaxObjects == 2
MaxStimuli == 3

Matrix(n_obj, n_stim, rows) ==
    [kind |-> "matrix", shape |-> <<n_obj, n_stim>>, rows |-> rows]

\* np.count_nonzero(bool_array, axis=0)[s]
n_obj_that_stimulus_is_part_of(m, s) ==
    Cardinality({o \in 1..m.shape[1] : m.rows[o][s + 1]})

\* line 412: np.any(n_obj_that_stimulus_is_part_of > 1)
part_of_multiple_never(m) == FALSE

part_of_multiple(m) ==
    \E s \in 0..(m.shape[2] - 1) : n_obj_that_stimulus_is_part_of(m, s) > 1

\* list(np.where(row)[0]): the indices of the true entries, ascending
where(row) ==
    SelectSeq([k \in 1..Len(row) |-> k - 1], LAMBDA s : row[s + 1])

bool_label_matrix_to_mutually_exclusive_ids(m) ==
    IF part_of_multiple(m) THEN Raise("ValueError")
    ELSE [kind |-> "ok", val |-> [o \in 1..m.shape[1] |-> where(m.rows[o])]]

\* Python's max of a list of numbers; max([]) raises ValueError
RECURSIVE max_of_list(_)
max_of_list(arr) ==
    IF Len(arr) = 0 THEN Raise("ValueError")
    ELSE IF Len(arr) = 1 THEN [kind |-> "ok", val |-> arr[1]]
    ELSE LET rest == max_of_list(Tail(arr))
         IN  [kind |-> "ok", val |-> IF arr[1] > rest.val THEN arr[1] ELSE rest.val]

\* max_of_nested_array on a list of lists of numbers: the max of the
\* maxima of the inner lists, each of which is computed first
max_of_nested_array(arr) ==
    LET inner == [k \in 1..Len(arr) |-> max_of_list(arr[k])]
    IN  IF \E k \in 1..Len(arr) : inner[k].kind = "raise" THEN Raise("ValueError")
        ELSE max_of_list([k \in 1..Len(arr) |-> inner[k].val])

ids_to_bool_array(ids) ==
    LET top == max_of_nested_array(ids)
    IN  IF top.kind = "raise" THEN top
        ELSE LET n_stims == top.val + 1
                 n_objs == Len(ids)
                 marked(obj) == {obj[k] : k \in 1..Len(obj)}
             IN  Matrix(n_objs, n_stims,
                        [o \in 1..n_objs |->
                            [s \in 1..n_stims |-> (s - 1) \in marked(ids[o])]])

\* lists of stimulus indices without a repeated index, in any order
IndexLists ==
    {q \in SeqsUpTo(0..(MaxStimuli - 1), MaxStimuli) :
        \A i, j \in 1..Len(q) : i # j => q[i] # q[j]}

BoolArrays ==
    UNION {{Matrix(o, s, rows) : rows \in [1..o -> [1..s -> BOOLEAN]]} :
              o \in 0..MaxObjects, s \in 0..MaxStimuli}

LabelInit ==
    /\ \/ /\ lb_ids = None
          /\ bool_array \in BoolArrays
          /\ lb_pc = "matrix"
       \/ /\ lb_ids \in {[kind |-> "list", val |-> v] : v \in SeqsUpTo(IndexLists, MaxObjects)}
          /\ bool_array = None
          /\ lb_pc = "ids"
    /\ collector = None
    /\ IdleExcept("label")

IdsToBoolArray ==
    /\ lb_pc = "ids"
    /\ bool_array' = ids_to_bool_array(lb_ids.val)
    /\ lb_pc' = IF bool_array'.kind = "raise" THEN "raised" ELSE "matrix"
    /\ UNCHANGED <<lb_ids, collector>>
    /\ UNCHANGED notLabel

BoolLabelMatrixToIds ==
    /\ lb_pc = "matrix"
    /\ collector' = bool_label_matrix_to_mutually_exclusive_ids(bool_array)
    /\ lb_pc' = IF collector'.kind = "raise" THEN "raised" ELSE "done"
    /\ UNCHANGED <<lb_ids, bool_array>>
    /\ UNCHANGED notLabel

LabelNext == IdsToBoolArray \/ BoolLabelMatrixToIds

C5_Overlap(m) ==
    \E s \in 1..m.shape[2] : \E o1, o2 \in 1..m.shape[1] :
        o1 # o2 /\ m.rows[o1][s] /\ m.rows[o2][s]

\* C5: the conversion of a boolean matrix raises the multiple-objects error
\* exactly when some column is true in two different rows, and then returns
\* nothing; otherwise it returns one list per row, in row order, strictly
\* ascending and holding exactly the columns where the row is true.
C5_RaisesIffOverlap ==
    collector.kind # "none" =>
        /\ collector.kind = "raise" <=> C5_Overlap(bool_array)
        /\ collector.kind = "raise" => collector = [kind |-> "raise", err |-> "ValueError"]
        /\ collector.kind = "ok" =>
             /\ Len(collector.val) = bool_array.shape[1]
             /\ \A o \in 1..Len(collector.val) :
                  LET l == collector.val[o]
                  IN  /\ \A i, j \in 1..Len(l) : i < j => l[i] < l[j]
                      /\ {l[i] : i \in 1..Len(l)}
                           = {s - 1 : s \in {t \in 1..bool_array.shape[2] :
                                                 bool_array.rows[o][t]}}

\* A matrix given directly, with a column no row is true in and no overlap,
\* has been converted.
C5_WitnessOk ==
    /\ lb_pc = "done"
    /\ lb_ids = None
    /\ bool_array.shape = <<2, 3>>
    /\ \E s \in 1..3 : \A o \in 1..2 : ~bool_array.rows[o][s]
    /\ \E o \in 1..2 : Len(collector.val[o]) = 2

C6_Disjoint(ids) ==
    \A o1, o2 \in 1..Len(ids) : o1 # o2 =>
        {ids[o1][k] : k \in 1..Len(ids[o1])} \cap {ids[o2][k] : k \in 1..Len(ids[o2])} = {}

C6_Indices(ids) == UNION {{ids[o][k] : k \in 1..Len(ids[o])} : o \in 1..Len(ids)}

C6_RoundTripOf(ids) ==
    /\ lb_pc # "raised"
    /\ lb_pc \in {"matrix", "done"} =>
         bool_array.shape = <<Len(ids), 1 + CHOOSE x \in C6_Indices(ids) :
                                                \A y \in C6_Indices(ids) : y <= x>>
    /\ lb_pc = "done" =>
         /\ Len(collector.val) = Len(ids)
         /\ \A o \in 1..Len(ids) :
               {collector.val[o][k] : k \in 1..Len(collector.val[o])}
                  = {ids[o][k] : k \in 1..Len(ids[o])}

\* C6 as stated: for any list of pairwise-disjoint lists of indices that
\* holds an index at all, ids_to_bool_array builds a matrix of one row per
\* object and (maximum index + 1) columns, and the conversion back succeeds
\* and returns per object the set of indices of the input.
C6_AsStated ==
    (lb_ids.kind = "list" /\ C6_Disjoint(lb_ids.val) /\ C6_Indices(lb_ids.val) # {})
        => C6_RoundTripOf(lb_ids.val)

\* The round trip of C6 on lists none of which is empty.
C6_RoundTripNonEmpty ==
    (/\ lb_ids.kind = "list"
     /\ C6_Disjoint(lb_ids.val)
     /\ Len(lb_ids.val) >= 1
     /\ \A o \in 1..Len(lb_ids.val) : Len(lb_ids.val[o]) >= 1)
        => C6_RoundTripOf(lb_ids.val)

C6_WitnessNonEmpty ==
    /\ lb_pc = "done"
    /\ lb_ids.kind = "list"
    /\ Len(lb_ids.val) = 2
    /\ lb_ids.val[1] = <<2, 0>>
    /\ lb_ids.val[2] = <<1>>

(***************************************************************************)
(* helper.py: functions on tables.  A table (pandas DataFrame) is the      *)
(* sequence of its rows; a row keeps its index label, which boolean        *)
(* masking and copy() carry over, beside its columns.                      *)
(***************************************************************************)
MaxPerType == 2
MaxRows == 4

\* the table whose ids column is the given sequence, indexed 0, 1, ...
TableOfIds(ids) == [k \in 1..Len(ids) |-> [index |-> k - 1, ids |-> ids[k]]]

\* line 270: the mask of the excitatory rows
is_excitatory_row_inclusive(row, num_exc_neurons_per_layer) ==
    row.ids <= num_exc_neurons_per_layer

is_excitatory_row(row, num_exc_neurons_per_layer) ==
    row.ids < num_exc_neurons_per_layer

split_exc_inh(neuron_activity, info) ==
    LET n_exc == info.num_exc_neurons_per_layer
        excitatory == SelectSeq(neuron_activity, LAMBDA r : is_excitatory_row(r, n_exc))
        kept == SelectSeq(neuron_activity, LAMBDA r : r.ids >= n_exc)
        inhibitory == [k \in 1..Len(kept) |-> [kept[k] EXCEPT !.ids = @ - n_exc]]
    IN  [kind |-> "ok", excitatory |-> excitatory, inhibitory |-> inhibitory]

SplitInit ==
    /\ \E n_exc \in 0..MaxPerType, n_inh \in 0..MaxPerType :
         \E ids \in SeqsUpTo(0..(n_exc + n_inh - 1), MaxRows) :
            fn_args = [neuron_activity |-> TableOfIds(ids),
                       info |-> [num_exc_neurons_per_layer |-> n_exc,
                                 num_inh_neurons_per_layer |-> n_inh]]
    /\ fn_result = None
    /\ IdleExcept("fn")

SplitExcInh ==
    /\ fn_result = None
    /\ fn_result' = split_exc_inh(fn_args.neuron_activity, fn_args.info)
    /\ UNCHANGED fn_args
    /\ UNCHANGED notFn

\* C7: the excitatory table holds exactly the rows of id < n_exc, unchanged
\* and once each; the inhibitory table exactly the rows of id >= n_exc, once
\* each, with the id reduced by n_exc; so every row of the input is in one
\* of the two tables, once, and its id is recovered by re-adding n_exc.
C7_SplitComplete ==
    fn_result.kind = "ok" =>
        LET t == fn_args.neuron_activity
            n_exc == fn_args.info.num_exc_neurons_per_layer
            exc == fn_result.excitatory
            inh == fn_result.inhibitory
            Once(table, row) == Cardinality({k \in 1..Len(table) : table[k] = row}) = 1
        IN  /\ \A k \in 1..Len(exc) :
                  exc[k].ids < n_exc /\ \E j \in 1..Len(t) : t[j] = exc[k]
            /\ \A k \in 1..Len(inh) :
                  inh[k].ids >= 0
                  /\ \E j \in 1..Len(t) : t[j] = [inh[k] EXCEPT !.ids = @ + n_exc]
            /\ \A j \in 1..Len(t) :
                  IF t[j].ids < n_exc
                  THEN /\ Once(exc, t[j])
                       /\ \A k \in 1..Len(inh) : inh[k].index # t[j].index
                  ELSE /\ Once(inh, [t[j] EXCEPT !.ids = @ - n_exc])
                       /\ \A k \in 1..Len(exc) : exc[k].index # t[j].index
            /\ Len(exc) + Len(inh) = Len(t)

\* A table holding every id of a layer of two excitatory and two inhibitory
\* neurons once, not in id order, has been split.
C7_Witness ==
    /\ fn_result.kind = "ok"
    /\ fn_args.info = [num_exc_neurons_per_layer |-> 2, num_inh_neurons_per_layer |-> 2]
    /\ fn_args.neuron_activity = TableOfIds(<<2, 0, 3, 1>>)
    /\ Len(fn_result.excitatory) = 2
    /\ Len(fn_result.inhibitory) = 2

(***************************************************************************)
(* helper.py: splitstimuli.  Times and the stimulus duration are whole     *)
(* numbers of one time unit, so that i * stimduration is exact; a spike    *)
(* row is its index label, its id and its time.                            *)
(***************************************************************************)
MaxSpikes == 3
MaxTime == 4
MaxDuration == 2

\* np.max(spikes.times); not a number on a table without rows
RECURSIVE max_time(_)
max_time(spikes) ==
    IF Len(spikes) = 0 THEN [kind |-> "nan"]
    ELSE IF Len(spikes) = 1 THEN [kind |-> "ok", val |-> spikes[1].times]
    ELSE LET rest == max_time(Tail(spikes))
         IN  [kind |-> "ok",
              val |-> IF spikes[1].times > rest.val THEN spikes[1].times ELSE rest.val]

\* line 21: the mask of the spikes of stimulus i
in_stimulus_from_onset(row, i, stimduration) ==
    (row.times >= i * stimduration) /\ (row.times < (i + 1) * stimduration)

in_stimulus(row, i, stimduration) ==
    (row.times > i * stimduration) /\ (row.times < (i + 1) * stimduration)

\* lines 16-26; int(np.ceil(...)) raises ValueError on not-a-number
splitstimuli(spikes, stimduration) ==
    LET top == max_time(spikes)
    IN  IF top.kind = "nan" THEN Raise("ValueError")
        ELSE LET num_stimuli == (top.val + stimduration - 1) \div stimduration
                 spikes_in_stim(i) ==
                     LET masked == SelectSeq(spikes, LAMBDA r : in_stimulus(r, i, stimduration))
                     IN  [k \in 1..Len(masked) |->
                             [masked[k] EXCEPT !.times = @ - (i * stimduration)]]
             IN  [kind |-> "ok",
                  val |-> [k \in 1..num_stimuli |-> spikes_in_stim(k - 1)]]

WindowsInit ==
    /\ \E cols \in SeqsUpTo([ids : 0..1, times : 0..MaxTime], MaxSpikes),
          stimduration \in 1..MaxDuration :
         fn_args = [spikes |-> [k \in 1..Len(cols) |->
                                   [index |-> k - 1, ids |-> cols[k].ids,
                                    times |-> cols[k].times]],
                    stimduration |-> stimduration]
    /\ fn_result = None
    /\ IdleExcept("fn")

SplitStimuli ==
    /\ fn_result = None
    /\ fn_result' = splitstimuli(fn_args.spikes, fn_args.stimduration)
    /\ UNCHANGED fn_args
    /\ UNCHANGED notFn

\* the number of rows of table i+1 of the result that come from row
\* (the same index label and id) with the time moved back by shift
C8_Copies(tables, i, row, shift) ==
    Cardinality({k \in 1..Len(tables[i + 1]) :
                    tables[i + 1][k] = [row EXCEPT !.times = @ - shift]})

C8_Windows(spikes, d, tables) ==
    /\ \A i \in 0..(Len(tables) - 1) : \A k \in 1..Len(tables[i + 1]) :
          \E j \in 1..Len(spikes) :
              tables[i + 1][k] = [spikes[j] EXCEPT !.times = @ - (i * d)]
    /\ \A j \in 1..Len(spikes) :
          LET t == spikes[j].times
          IN  IF t % d = 0
              THEN \A i \in 0..(Len(tables) - 1) : \A k \in 1..Len(tables[i + 1]) :
                      tables[i + 1][k].index # spikes[j].index
              ELSE /\ t \div d < Len(tables)
                   /\ C8_Copies(tables, t \div d, spikes[j], (t \div d) * d) = 1
                   /\ \A i \in 0..(Len(tables) - 1) : i # t \div d =>
                         \A k \in 1..Len(tables[i + 1]) :
                            tables[i + 1][k].index # spikes[j].index

RECURSIVE C8_TotalRows(_)
C8_TotalRows(tables) ==
    IF Len(tables) = 0 THEN 0 ELSE Len(tables[1]) + C8_TotalRows(Tail(tables))

\* C8 as stated: for any spike table and any duration d > 0, splitstimuli
\* returns tables in window order; a spike strictly inside window i is in
\* table i only, rebased; a spike on a multiple of d is in no table.
C8_AsStated ==
    fn_result.kind # "none" =>
        /\ fn_result.kind = "ok"
        /\ C8_Windows(fn_args.spikes, fn_args.stimduration, fn_result.val)

\* C8: for any spike table with at least one row and any duration d > 0,
\* splitstimuli returns ceil(max(times)/d) tables; a spike with
\* i*d < time < (i+1)*d is in table i only, once, with its time reduced by
\* i*d and its id unchanged; a spike on a multiple of d is in no table; the
\* rows returned are as many as the input rows off the multiples of d.
C8_WindowsNonEmpty ==
    (fn_result.kind # "none" /\ Len(fn_args.spikes) >= 1) =>
        /\ fn_result.kind = "ok"
        /\ \E top \in 0..MaxTime :
              /\ \E j \in 1..Len(fn_args.spikes) : fn_args.spikes[j].times = top
              /\ \A j \in 1..Len(fn_args.spikes) : fn_args.spikes[j].times <= top
              /\ (Len(fn_result.val) - 1) * fn_args.stimduration < top
              /\ top <= Len(fn_result.val) * fn_args.stimduration
        /\ C8_Windows(fn_args.spikes, fn_args.stimduration, fn_result.val)
        /\ C8_TotalRows(fn_result.val)
             = Cardinality({j \in 1..Len(fn_args.spikes) :
                               fn_args.spikes[j].times % fn_args.stimduration # 0})

\* Spikes at time 0, on the boundary d = 2 and inside the second window
\* have been split: two windows, one row returned.
C8_Witness ==
    /\ fn_result.kind = "ok"
    /\ fn_args.stimduration = 2
    /\ Len(fn_args.spikes) = 3
    /\ fn_args.spikes[1].times = 2
    /\ fn_args.spikes[2].times = 3
    /\ fn_args.spikes[3].times = 0
    /\ Len(fn_result.val) = 2
    /\ Len(fn_result.val[1]) = 0
    /\ Len(fn_result.val[2]) = 1

(***************************************************************************)
(* helper.py: random_label.  The random draw is any arrangement of the     *)
(* n_stimuli indices; on no index at all np.random.choice(0, ...) raises   *)
(* in some numpy releases and returns an empty array in others.            *)
(***************************************************************************)
MaxDrawn == 4
MaxRepeats == 2

\* np.random.choice(n, size, replace=False) with size n in all: the
\* arrangements of 0..n-1, as flat sequences
Arrangements(n) ==
    {p \in [1..n -> 0..(n - 1)] : \A i, j \in 1..n : i # j => p[i] # p[j]}

\* line 374: one entry of one_presentation_of_all + (r * n_stimuli)
presentation_entry_next_slot(entry, r, n_stimuli) == entry + r

presentation_entry(entry, r, n_stimuli) == entry + (r * n_stimuli)

\* lines 369-378 for one outcome of the draw; np.concatenate of no array
\* raises ValueError
random_label(n_objects, n_transforms, n_repeats, draw) ==
    LET n_stimuli == n_objects * n_transforms
        one_presentation_of_all(o, t) == draw[o * n_transforms + t + 1]
        row(o) == [k \in 1..(n_repeats * n_transforms) |->
                      presentation_entry(
                          one_presentation_of_all(o, (k - 1) % n_transforms),
                          (k - 1) \div n_transforms, n_stimuli)]
    IN  IF n_repeats = 0 THEN Raise("ValueError")
        ELSE [kind |-> "ok", val |-> [o \in 1..n_objects |-> row(o - 1)]]

RandomInit ==
    /\ fn_args \in {a \in [n_objects : 0..MaxDrawn, n_transforms : 0..MaxDrawn,
                          n_repeats : 0..MaxRepeats] :
                       a.n_objects * a.n_transforms <= MaxDrawn}
    /\ fn_result = None
    /\ IdleExcept("fn")

RandomLabel ==
    /\ fn_result = None
    /\ \/ \E draw \in Arrangements(fn_args.n_objects * fn_args.n_transforms) :
             fn_result' = random_label(fn_args.n_objects, fn_args.n_transforms,
                                       fn_args.n_repeats, draw)
       \/ /\ fn_args.n_objects * fn_args.n_transforms = 0
          /\ fn_result' = Raise("ValueError")
    /\ UNCHANGED fn_args
    /\ UNCHANGED notFn

C9_Label(a, lists) ==
    LET n_stimuli == a.n_objects * a.n_transforms
    IN  /\ Len(lists) = a.n_objects
        /\ \A o \in 1..Len(lists) :
              /\ Len(lists[o]) = a.n_transforms * a.n_repeats
              /\ \A r \in 0..(a.n_repeats - 2), t \in 1..a.n_transforms :
                    lists[o][(r + 1) * a.n_transforms + t]
                       = lists[o][r * a.n_transforms + t] + n_stimuli
        /\ \A x \in 0..(n_stimuli * a.n_repeats - 1) :
              Cardinality({p \in {<<o, k>> : o \in 1..Len(lists),
                                             k \in 1..(a.n_transforms * a.n_repeats)} :
                              lists[p[1]][p[2]] = x}) = 1

\* C9 as stated: for every outcome of the draw, random_label on at least
\* one object and one transform returns n_objects lists of length
\* n_transforms * n_repeats, each repeat block the previous one plus
\* n_objects * n_transforms, the lists holding every index of
\* [0, n_objects * n_transforms * n_repeats) exactly once.
C9_AsStated ==
    (fn_result.kind # "none" /\ fn_args.n_objects >= 1 /\ fn_args.n_transforms >= 1) =>
        /\ fn_result.kind = "ok"
        /\ C9_Label(fn_args, fn_result.val)

\* C9: the same for n_objects, n_transforms and n_repeats all at least 1.
C9_LabelOfRepeats ==
    (/\ fn_result.kind # "none"
     /\ fn_args.n_objects >= 1
     /\ fn_args.n_transforms >= 1
     /\ fn_args.n_repeats >= 1) =>
        /\ fn_result.kind = "ok"
        /\ C9_Label(fn_args, fn_result.val)

\* Two objects of two transforms, presented twice, have been labelled from
\* a draw that is not in index order.
C9_Witness ==
    /\ fn_result.kind = "ok"
    /\ fn_args = [n_objects |-> 2, n_transforms |-> 2, n_repeats |-> 2]
    /\ fn_result.val[1] = <<3, 0, 7, 4>>
    /\ fn_result.val[2] = <<2, 1, 6, 5>>

(***************************************************************************)
(* helper.py: reshape_into_2d.  An array is its shape and its cells, one   *)
(* per tuple of 0-based indices; np.reshape with order="F" reads and       *)
(* writes the cells with the first index changing fastest.                 *)
(***************************************************************************)
MaxCells == 9
MaxDim == 2
MaxLeadingAxes == 2

CellValues == {0, 1}

RECURSIVE size(_)
size(shape) == IF Len(shape) = 0 THEN 1 ELSE shape[1] * size(Tail(shape))

RECURSIVE Indices(_)
Indices(shape) ==
    IF Len(shape) = 0 THEN {<<>>}
    ELSE {Append(idx, x) : idx \in Indices(SubSeq(shape, 1, Len(shape) - 1)),
                           x \in 0..(shape[Len(shape)] - 1)}

Shapes ==
    {sh \in {Append(lead, n) : lead \in SeqsUpTo(1..MaxDim, MaxLeadingAxes),
                               n \in 0..MaxCells} : size(sh) <= MaxCells}

Arrays == UNION {[shape : {sh}, data : [Indices(sh) -> CellValues]] : sh \in Shapes}

\* position of a cell in C order: the last index changes fastest
RECURSIVE ravel_index_C(_, _)
ravel_index_C(idx, shape) ==
    IF Len(shape) = 0 THEN 0
    ELSE idx[1] * size(Tail(shape)) + ravel_index_C(Tail(idx), Tail(shape))

\* position of a cell in Fortran order: the first index changes fastest
RECURSIVE ravel_index(_, _)
ravel_index(idx, shape) ==
    IF Len(shape) = 0 THEN 0
    ELSE idx[1] + shape[1] * ravel_index(Tail(idx), Tail(shape))

unravel_index(position, shape) ==
    CHOOSE idx \in Indices(shape) : ravel_index(idx, shape) = position

\* np.reshape(a, newshape, order="F")
np_reshape(a, newshape) ==
    [shape |-> newshape,
     data  |-> [idx \in Indices(newshape) |->
                   a.data[unravel_index(ravel_index(idx, newshape), a.shape)]]]

reshape_into_2d(unshaped) ==
    LET dimensions == unshaped.shape
        n_neurons == dimensions[Len(dimensions)]
        side_length == ISqrt(n_neurons)
    IN  IF ~IsSquare(n_neurons) THEN Raise("RuntimeError")
        ELSE [kind |-> "ok",
              val  |-> np_reshape(unshaped,
                           SubSeq(dimensions, 1, Len(dimensions) - 1)
                               \o <<side_length, side_length>>)]

ReshapeInit ==
    /\ fn_args \in Arrays
    /\ fn_result = None
    /\ IdleExcept("fn")

ReshapeInto2d ==
    /\ fn_result = None
    /\ fn_result' = reshape_into_2d(fn_args)
    /\ UNCHANGED fn_args
    /\ UNCHANGED notFn

\* C10: for any array whose last axis has length s*s, reshape_into_2d
\* returns an array with the same leading axes and two trailing axes of
\* length s, and output[..., r, c] = input[..., c*s + r] for every leading
\* index and every r, c in [0, s).
C10_ColumnMajor ==
    LET leading == SubSeq(fn_args.shape, 1, Len(fn_args.shape) - 1)
        n == fn_args.shape[Len(fn_args.shape)]
    IN  \A s \in 0..n :
          (fn_result.kind # "none" /\ s * s = n) =>
            /\ fn_result.kind = "ok"
            /\ fn_result.val.shape = leading \o <<s, s>>
            /\ DOMAIN fn_result.val.data = Indices(leading \o <<s, s>>)
            /\ \A l \in Indices(leading), r \in 0..(s - 1), c \in 0..(s - 1) :
                  fn_result.val.data[l \o <<r, c>>] = fn_args.data[l \o <<c * s + r>>]

\* A 2 x 4 array whose second row holds 1 at slot 1 only has been reshaped
\* to 2 x 2 x 2: the 1 sits at row 1, column 0 of the second grid.
C10_Witness ==
    /\ fn_result.kind = "ok"
    /\ fn_args.shape = <<2, 4>>
    /\ \A j \in 0..3 : fn_args.data[<<1, j>>] = (IF j = 1 THEN 1 ELSE 0)
    /\ fn_result.val.shape = <<2, 2, 2>>
    /\ fn_result.val.data[<<1, 1, 0>>] = 1
    /\ fn_result.val.data[<<1, 0, 1>>] = 0

(***************************************************************************)
(* helper.py: get_side_length and reshape_into_2d on counts that are and   *)
(* are not perfect squares.                                                *)
(***************************************************************************)
MaxCount == 64

SideInit ==
    /\ fn_args \in [call : {"get_side_length"}, n_in_layer_type : 0..MaxCount]
                       \cup [call : {"reshape_into_2d"}, unshaped : Arrays]
    /\ fn_result = None
    /\ IdleExcept("fn")

GetSideLength ==
    /\ fn_result = None
    /\ fn_args.call = "get_side_length"
    /\ fn_result' = get_side_length(fn_args.n_in_layer_type)
    /\ UNCHANGED fn_args
    /\ UNCHANGED notFn

ReshapeLastAxis ==
    /\ fn_result = None
    /\ fn_args.call = "reshape_into_2d"
    /\ fn_result' = reshape_into_2d(fn_args.unshaped)
    /\ UNCHANGED fn_args
    /\ UNCHANGED notFn

SideNext == GetSideLength \/ ReshapeLastAxis

\* C11: get_side_length(n) returns the integer s with s*s = n when n is a
\* perfect square and raises the not-a-perfect-square error for every other
\* positive n; reshape_into_2d raises the same error when the length of the
\* last axis is not a perfect square; a failing call returns nothing.
C11_SquareOrError ==
    LET n == IF fn_args.call = "get_side_length" THEN fn_args.n_in_layer_type
             ELSE fn_args.unshaped.shape[Len(fn_args.unshaped.shape)]
        roots == {s \in 0..n : s * s = n}
    IN  fn_result.kind # "none" =>
          /\ (roots = {}) => fn_result = Raise("RuntimeError")
          /\ (roots # {} /\ fn_args.call = "get_side_length") =>
                /\ fn_result.kind = "ok"
                /\ fn_result.val \in roots
          /\ (roots # {} /\ fn_args.call = "reshape_into_2d") =>
                fn_result.kind = "ok"

\* get_side_length(50) has raised.
C11_Witness ==
    /\ fn_args = [call |-> "get_side_length", n_in_layer_type |-> 50]
    /\ fn_result = Raise("RuntimeError")

(***************************************************************************)
(* helper.py: id_within_layer_to_pos.  The id is a (layer, neuron_id)      *)
(* tuple or a bare integer (held as a 1-tuple here); len() of an integer    *)
(* raises TypeError.                                                       *)
(***************************************************************************)
MaxGridIndex == 3

PairId(layer, neuron_id) == [form |-> "tuple", val |-> <<layer, neuron_id>>]
BareId(neuron_id) == [form |-> "int", val |-> <<neuron_id>>]

id_within_layer_to_pos(id, info, exc_neuron) ==
    IF id.form = "int" THEN Raise("TypeError")
    ELSE
    LET neuron_id == id.val[2]
        layer == <<id.val[1]>>
        n_in_layer_typ == IF exc_neuron THEN info.num_exc_neurons_per_layer
                          ELSE info.num_inh_neurons_per_layer
        side_length == get_side_length(n_in_layer_typ)
    IN  IF side_length.kind = "raise" THEN side_length
        ELSE IF side_length.val = 0 THEN Raise("ZeroDivisionError")
        ELSE LET x == neuron_id \div side_length.val
                 y == neuron_id % side_length.val
             IN  [kind |-> "ok", val |-> layer \o <<y, x>>]

(***************************************************************************)
(* 2-D grid placement: one call of id_to_position with pos_as_2d, of       *)
(* id_within_layer_to_pos or of position_to_id with a 3-tuple.             *)
(***************************************************************************)
PlaceInit ==
    /\ fn_args \in
          {a \in [call : {"id_to_position"}, id : 0..(MaxLayers * 2 * MaxPop),
                  info : Architectures] : a.id < TotalNeurons(a.info)}
          \cup {a \in [call : {"id_within_layer_to_pos"},
                       id : {PairId(l, i) : l \in 0..(MaxLayers - 1), i \in 0..MaxPop}
                               \cup {BareId(i) : i \in 0..MaxPop},
                       info : Architectures, exc_neuron : BOOLEAN] :
                   a.id.form = "tuple" => a.id.val[1] < a.info.num_layers}
          \cup {a \in [call : {"position_to_id"},
                       pos : (0..(MaxLayers - 1)) \X (0..MaxGridIndex) \X (0..MaxGridIndex),
                       is_excitatory : BOOLEAN, info : Architectures] :
                   a.pos[1] < a.info.num_layers}
    /\ fn_result = None
    /\ IdleExcept("fn")

PlaceIdToPosition ==
    /\ fn_result = None
    /\ fn_args.call = "id_to_position"
    /\ fn_result' = id_to_position(fn_args.id, fn_args.info, TRUE)
    /\ UNCHANGED fn_args
    /\ UNCHANGED notFn

PlaceIdWithinLayerToPos ==
    /\ fn_result = None
    /\ fn_args.call = "id_within_layer_to_pos"
    /\ fn_result' = id_within_layer_to_pos(fn_args.id, fn_args.info, fn_args.exc_neuron)
    /\ UNCHANGED fn_args
    /\ UNCHANGED notFn

PlacePositionToId ==
    /\ fn_result = None
    /\ fn_args.call = "position_to_id"
    /\ fn_result' = position_to_id(fn_args.pos, fn_args.is_excitatory, fn_args.info)
    /\ UNCHANGED fn_args
    /\ UNCHANGED notFn

PlaceNext == PlaceIdToPosition \/ PlaceIdWithinLayerToPos \/ PlacePositionToId

C12_NotSquare(n) == \A s \in 0..n : s * s # n

\* the neuron the call addresses is excitatory
C12_AddressedExc ==
    IF fn_args.call = "id_to_position"
    THEN fn_args.id % (fn_args.info.num_exc_neurons_per_layer
                          + fn_args.info.num_inh_neurons_per_layer)
            < fn_args.info.num_exc_neurons_per_layer
    ELSE IF fn_args.call = "id_within_layer_to_pos" THEN fn_args.exc_neuron
    ELSE fn_args.is_excitatory

\* C12 as stated: a 2-D placement call on an architecture whose excitatory
\* or inhibitory per-layer count is not a perfect square raises, whichever
\* population the addressed neuron belongs to.
C12_AsStated ==
    (/\ fn_result.kind # "none"
     /\ \/ C12_NotSquare(fn_args.info.num_exc_neurons_per_layer)
        \/ C12_NotSquare(fn_args.info.num_inh_neurons_per_layer)) =>
        fn_result.kind = "raise"

\* C12: a 2-D placement call raises whenever the per-layer count of the
\* population the addressed neuron belongs to is not a perfect square.
C12_AddressedPopulation ==
    (/\ fn_result.kind # "none"
     /\ C12_NotSquare(IF C12_AddressedExc
                      THEN fn_args.info.num_exc_neurons_per_layer
                      ELSE fn_args.info.num_inh_neurons_per_layer)) =>
        fn_result.kind = "raise"

\* position_to_id of a grid position of an inhibitory neuron has raised on
\* an architecture with 4 excitatory and 3 inhibitory neurons per layer.
C12_Witness ==
    /\ fn_args.call = "position_to_id"
    /\ ~fn_args.is_excitatory
    /\ fn_args.pos = <<1, 1, 0>>
    /\ fn_args.info.num_exc_neurons_per_layer = 4
    /\ fn_args.info.num_inh_neurons_per_layer = 3
    /\ fn_result = Raise("RuntimeError")

\* what C17 says id_within_layer_to_pos returns for the call of fn_args
C17_Expected ==
    LET info == fn_args.info
        n == IF fn_args.exc_neuron THEN info.num_exc_neurons_per_layer
             ELSE info.num_inh_neurons_per_layer
        side == CHOOSE s \in 1..n : s * s = n
        id == fn_args.id.val[Len(fn_args.id.val)]
    IN  IF fn_args.id.form = "tuple"
        THEN <<fn_args.id.val[1], id % side, id \div side>>
        ELSE <<id % side, id \div side>>

\* the call is one of id_within_layer_to_pos on a population whose count
\* is a positive perfect square
C17_OnSquarePopulation ==
    /\ fn_result.kind # "none"
    /\ fn_args.call = "id_within_layer_to_pos"
    /\ \E s \in 1..MaxPop :
          s * s = (IF fn_args.exc_neuron THEN fn_args.info.num_exc_neurons_per_layer
                   ELSE fn_args.info.num_inh_neurons_per_layer)

\* C17: id_within_layer_to_pos accepts both input forms: for a (layer, id)
\* pair it returns (layer, id % side, id // side) and for a bare integer id
\* it returns (id % side, id // side), side being the side length of the
\* population selected by the excitatory/inhibitory flag.
C17_AsStated ==
    C17_OnSquarePopulation =>
        fn_result = [kind |-> "ok", val |-> C17_Expected]

\* The same for the (layer, id) pair alone.
C17_PairForm ==
    (C17_OnSquarePopulation /\ fn_args.id.form = "tuple") =>
        fn_result = [kind |-> "ok", val |-> C17_Expected]

(***************************************************************************)
(* helper.py: z_transform.  Arithmetic is exact: for a slice of n cells    *)
(* with sum S, n*x - S is n times the distance of x from the mean, and     *)
(* Q, the sum of (n*x_i - S)^2, is n^3 times the variance.  A quotient     *)
(* (x - mean) / sigma is kept as its sign and its square, the reduced      *)
(* fraction (n*x - S)^2 * n / Q.  np.mean and np.std drop the axis they    *)
(* reduce; the subtraction and the division then broadcast the reduced     *)
(* array against data from the last axis backwards.                        *)
(***************************************************************************)
RECURSIVE GCD(_, _)
GCD(a, b) == IF b = 0 THEN a ELSE GCD(b, a % b)

RECURSIVE seq_sum(_)
seq_sum(xs) == IF Len(xs) = 0 THEN 0 ELSE xs[1] + seq_sum(Tail(xs))

\* the cells of data along axis at the index idx of the reduced array
slice_along(data, axis, idx) ==
    [t \in 1..data.shape[axis + 1] |->
        data.data[SubSeq(idx, 1, axis) \o <<t - 1>> \o SubSeq(idx, axis + 1, Len(idx))]]

reduced_shape(shape, axis) ==
    SubSeq(shape, 1, axis) \o SubSeq(shape, axis + 2, Len(shape))

\* np.mean(data, axis=axis): each cell as the sum and the count of its slice
np_mean(data, axis) ==
    [shape |-> reduced_shape(data.shape, axis),
     data  |-> [idx \in Indices(reduced_shape(data.shape, axis)) |->
                   [sum |-> seq_sum(slice_along(data, axis, idx)),
                    n   |-> data.shape[axis + 1]]]]

\* np.std(data, axis=axis): each cell as Q, n^3 times the variance of its slice
np_std(data, axis) ==
    [shape |-> reduced_shape(data.shape, axis),
     data  |-> [idx \in Indices(reduced_shape(data.shape, axis)) |->
                   LET xs == slice_along(data, axis, idx)
                       n == Len(xs)
                       S == seq_sum(xs)
                   IN  seq_sum([t \in 1..n |-> (n * xs[t] - S) * (n * xs[t] - S)])]]

\* numpy broadcasting of two shapes: aligned at the last axis, a missing
\* axis or an axis of length 1 is stretched; any other mismatch raises
pad_shape(shape, n) ==
    [k \in 1..n |-> IF k <= n - Len(shape) THEN 1 ELSE shape[k - (n - Len(shape))]]

np_broadcast_shapes(s1, s2) ==
    LET n == IF Len(s1) > Len(s2) THEN Len(s1) ELSE Len(s2)
        p1 == pad_shape(s1, n)
        p2 == pad_shape(s2, n)
    IN  IF \E k \in 1..n : p1[k] # p2[k] /\ p1[k] # 1 /\ p2[k] # 1
        THEN Raise("ValueError")
        ELSE [kind |-> "ok",
              val  |-> [k \in 1..n |-> IF p1[k] > p2[k] THEN p1[k] ELSE p2[k]]]

\* the index into an operand of shape `shape` for the index idx of the
\* broadcast result
broadcast_index(idx, shape) ==
    [k \in 1..Len(shape) |->
        IF shape[k] = 1 THEN 0 ELSE idx[k + (Len(idx) - Len(shape))]]

Zero == [kind |-> "num", sgn |-> 0, p |-> 0, q |-> 1]

\* (x - sum/n) / sqrt(Q / n^3) in floating point: 0/0 is nan, a/0 is +-inf
quotient(x, mean, Q) ==
    LET a == mean.n * x - mean.sum
        sgn == IF a > 0 THEN 1 ELSE -1
    IN  IF Q = 0 THEN (IF a = 0 THEN [kind |-> "nan"] ELSE [kind |-> "inf", sgn |-> sgn])
        ELSE IF a = 0 THEN Zero
        ELSE LET p == a * a * mean.n
                 g == GCD(p, Q)
             IN  [kind |-> "num", sgn |-> sgn, p |-> p \div g, q |-> Q \div g]

\* np.nan_to_num: nan becomes 0, +-inf the largest finite float of that sign
nan_to_num(v) ==
    IF v.kind = "nan" THEN Zero
    ELSE IF v.kind = "inf" THEN [kind |-> "max", sgn |-> v.sgn]
    ELSE v

z_transform(data, axis) ==
    LET mean == np_mean(data, axis)
        sigma == np_std(data, axis)
        shape == np_broadcast_shapes(data.shape, mean.shape)
    IN  IF shape.kind = "raise" THEN shape
        ELSE [kind |-> "ok",
              val  |-> [shape |-> shape.val,
                        data  |-> [idx \in Indices(shape.val) |->
                                     nan_to_num(quotient(
                                         data.data[broadcast_index(idx, data.shape)],
                                         mean.data[broadcast_index(idx, mean.shape)],
                                         sigma.data[broadcast_index(idx, sigma.shape)]))]]]

ZInit ==
    /\ fn_args \in {a \in [data : {d \in Arrays : size(d.shape) >= 1},
                          axis : 0..MaxLeadingAxes] : a.axis < Len(a.data.shape)}
    /\ fn_result = None
    /\ IdleExcept("fn")

ZTransform ==
    /\ fn_result = None
    /\ fn_result' = z_transform(fn_args.data, fn_args.axis)
    /\ UNCHANGED fn_args
    /\ UNCHANGED notFn

\* v is (x - mean) / std for the cell x of data at idx and the slice of
\* data along axis that idx lies on, or 0 when that slice has std 0
C13_IsZOfSlice(v, data, axis, idx) ==
    LET xs == [t \in 1..data.shape[axis + 1] |->
                  data.data[SubSeq(idx, 1, axis) \o <<t - 1>>
                               \o SubSeq(idx, axis + 2, Len(idx))]]
        n == Len(xs)
        S == seq_sum(xs)
        Q == seq_sum([t \in 1..n |-> (n * xs[t] - S) * (n * xs[t] - S)])
        a == n * data.data[idx] - S
    IN  /\ v.kind = "num"
        /\ Q = 0 => v.sgn = 0
        /\ Q # 0 =>
              /\ v.sgn = (IF a > 0 THEN 1 ELSE IF a < 0 THEN -1 ELSE 0)
              /\ v.p * Q = v.q * a * a * n

C13_Transformed(data, axis, result) ==
    /\ result.kind = "ok"
    /\ result.val.shape = data.shape
    /\ \A idx \in Indices(data.shape) :
          C13_IsZOfSlice(result.val.data[idx], data, axis, idx)

\* C13: for any numeric array and any axis of it, z_transform returns the
\* array in which each element has the mean of its slice along the axis
\* subtracted and is divided by the standard deviation of that slice; a
\* slice of standard deviation zero comes out all zero and no cell of the
\* output is not-a-number.
C13_AsStated ==
    fn_result.kind # "none" => C13_Transformed(fn_args.data, fn_args.axis, fn_result)

\* The same for the first axis only, the default of z_transform.
C13_AlongFirstAxis ==
    (fn_result.kind # "none" /\ fn_args.axis = 0) =>
        C13_Transformed(fn_args.data, fn_args.axis, fn_result)

(***************************************************************************)
(* helper.py: class NeuronMask.  The queried ids are a numpy array or a    *)
(* single id, both held as the sequence of their ids; the returned mask    *)
(* has one boolean per id.  A mask is built for a network with at least    *)
(* one neuron per layer.                                                   *)
(***************************************************************************)
MaxQueryId == 4
MaxIds == 2

\* lines 488-501: __init__
NeuronMask(network_architecture_info) ==
    LET n_exc == network_architecture_info.num_exc_neurons_per_layer
        n_inh == network_architecture_info.num_inh_neurons_per_layer
    IN  [n_exc |-> n_exc,
         n_inh |-> n_inh,
         total_per_layer |-> n_exc + n_inh,
         n_layer |-> network_architecture_info.num_layers,
         n_all_neurons |-> (n_exc + n_inh) * network_architecture_info.num_layers,
         last_exc |-> n_exc]

\* line 504 looking at the first id only
check_if_in_input_layer_first_only(neuron_ids) ==
    Len(neuron_ids) > 0 /\ neuron_ids[1] < 0

\* lines 503-505: TRUE when NotImplementedError is raised
check_if_in_input_layer(neuron_ids) ==
    \E k \in 1..Len(neuron_ids) : neuron_ids[k] < 0

is_in_layer(self, neuron_ids, layer) ==
    IF check_if_in_input_layer(neuron_ids) THEN Raise("NotImplementedError")
    ELSE [kind |-> "ok",
          val  |-> [k \in 1..Len(neuron_ids) |->
                       (neuron_ids[k] \div self.total_per_layer) = layer]]

\* lines 513-514: _id_within_layer
id_within_layer_of(self, neuron_ids) ==
    [k \in 1..Len(neuron_ids) |-> neuron_ids[k] % self.total_per_layer]

is_excitatory(self, neuron_ids) ==
    IF check_if_in_input_layer(neuron_ids) THEN Raise("NotImplementedError")
    ELSE LET ids_within_layer == id_within_layer_of(self, neuron_ids)
         IN  [kind |-> "ok",
              val  |-> [k \in 1..Len(neuron_ids) |-> ids_within_layer[k] < self.n_exc]]

is_inhibitory(self, neuron_ids) ==
    IF check_if_in_input_layer(neuron_ids) THEN Raise("NotImplementedError")
    ELSE LET ids_within_layer == id_within_layer_of(self, neuron_ids)
         IN  [kind |-> "ok",
              val  |-> [k \in 1..Len(neuron_ids) |-> ids_within_layer[k] >= self.n_exc]]

MaskArchitectures ==
    {a \in [num_exc_neurons_per_layer : 0..MaxPerType,
            num_inh_neurons_per_layer : 0..MaxPerType,
            num_layers : 1..MaxLayers] :
        a.num_exc_neurons_per_layer + a.num_inh_neurons_per_layer >= 1}

\* a single id, or an array of up to MaxIds ids
Queries ==
    {<<id>> : id \in (-1)..MaxQueryId} \cup SeqsUpTo((-1)..MaxQueryId, MaxIds)

MaskInit ==
    /\ \E info \in MaskArchitectures, neuron_ids \in Queries :
          \/ \E layer \in 0..MaxLayers :
                fn_args = [self |-> NeuronMask(info), method |-> "is_in_layer",
                           neuron_ids |-> neuron_ids, layer |-> layer]
          \/ \E method \in {"is_excitatory", "is_inhibitory"} :
                fn_args = [self |-> NeuronMask(info), method |-> method,
                           neuron_ids |-> neuron_ids]
    /\ fn_result = None
    /\ IdleExcept("fn")

IsInLayer ==
    /\ fn_result = None
    /\ fn_args.method = "is_in_layer"
    /\ fn_result' = is_in_layer(fn_args.self, fn_args.neuron_ids, fn_args.layer)
    /\ UNCHANGED fn_args
    /\ UNCHANGED notFn

IsExcitatory ==
    /\ fn_result = None
    /\ fn_args.method = "is_excitatory"
    /\ fn_result' = is_excitatory(fn_args.self, fn_args.neuron_ids)
    /\ UNCHANGED fn_args
    /\ UNCHANGED notFn

IsInhibitory ==
    /\ fn_result = None
    /\ fn_args.method = "is_inhibitory"
    /\ fn_result' = is_inhibitory(fn_args.self, fn_args.neuron_ids)
    /\ UNCHANGED fn_args
    /\ UNCHANGED notFn

MaskNext == IsInLayer \/ IsExcitatory \/ IsInhibitory

\* C14: is_in_layer, is_excitatory and is_inhibitory raise the unsupported
\* error when any queried id is negative; otherwise the mask has, for each
\* id, is_in_layer = (id // total_per_layer = layer), is_excitatory =
\* (id % total_per_layer < n_exc) and is_inhibitory = not is_excitatory.
C14_MaskOrUnsupported ==
    LET ids == fn_args.neuron_ids
        total == fn_args.self.n_exc + fn_args.self.n_inh
        exc(id) == (id % total) < fn_args.self.n_exc
    IN  fn_result.kind # "none" =>
          IF \E k \in 1..Len(ids) : ids[k] < 0
          THEN fn_result = Raise("NotImplementedError")
          ELSE /\ fn_result.kind = "ok"
               /\ Len(fn_result.val) = Len(ids)
               /\ \A k \in 1..Len(ids) :
                     fn_result.val[k] =
                        CASE fn_args.method = "is_in_layer" ->
                                 (ids[k] \div total) = fn_args.layer
                          [] fn_args.method = "is_excitatory" -> exc(ids[k])
                          [] fn_args.method = "is_inhibitory" -> ~exc(ids[k])

\* is_inhibitory has raised on an array whose second id is negative.
C14_Witness ==
    /\ fn_args.method = "is_inhibitory"
    /\ fn_args.neuron_ids = <<3, -1>>
    /\ fn_result = Raise("NotImplementedError")

(***************************************************************************)
(* helper.py: NeuronMask.get_ids_of_random_neurons_of_type.  A restricting *)
(* function is a method of the mask, is_in_layer with its layer bound.     *)
(* restricting_functions is None, a list of such functions or one          *)
(* function.  The draw is any arrangement np.random.choice can return; on  *)
(* an empty pool with nothing to draw it raises in some numpy releases and *)
(* returns the empty array in others.                                      *)
(***************************************************************************)
MaxDraw == 2
MaxPredicates == 1

RestrictingFunctions ==
    [fun : {"is_excitatory", "is_inhibitory"}]
        \cup [fun : {"is_in_layer"}, layer : 0..(MaxLayers - 1)]

\* fun(neurons_left)
apply_restricting_function(self, fun, neurons_left) ==
    IF fun.fun = "is_excitatory" THEN is_excitatory(self, neurons_left)
    ELSE IF fun.fun = "is_inhibitory" THEN is_inhibitory(self, neurons_left)
    ELSE is_in_layer(self, neurons_left, fun.layer)

\* np.arange(0, stop)
arange(stop) == [k \in 1..stop |-> k - 1]

\* line 544: neurons_left[fun(neurons_left)]
boolean_index(neurons_left, mask) ==
    LET RECURSIVE pick(_)
        pick(k) == IF k > Len(neurons_left) THEN <<>>
                   ELSE (IF mask[k] THEN <<neurons_left[k]>> ELSE <<>>) \o pick(k + 1)
    IN  pick(1)

\* lines 539-544
RECURSIVE restrict(_, _, _)
restrict(self, restricting_functions, neurons_left) ==
    IF Len(restricting_functions) = 0 THEN neurons_left
    ELSE restrict(self, Tail(restricting_functions),
                  boolean_index(neurons_left,
                      apply_restricting_function(self, restricting_functions[1],
                                                 neurons_left).val))

neurons_left_of(self, restricting_functions) ==
    LET entire_pool == arange(self.n_all_neurons)
    IN  IF restricting_functions.form = "none" THEN entire_pool
        ELSE IF restricting_functions.form = "single"
        THEN restrict(self, <<restricting_functions.val>>, entire_pool)
        ELSE restrict(self, restricting_functions.val, entire_pool)

\* np.random.choice(a, n_samples) with replacement
choice_with_replacement(a, n_samples) ==
    [1..n_samples -> {a[k] : k \in 1..Len(a)}]

\* np.random.choice(a, n_samples, replace=False): the arrays it can return
choice(a, n_samples) ==
    {s \in [1..n_samples -> {a[k] : k \in 1..Len(a)}] :
        \A i, j \in 1..n_samples : i # j => s[i] # s[j]}

DrawInit ==
    /\ \E info \in MaskArchitectures :
          fn_args \in [info : {info}, self : {NeuronMask(info)}, n_to_draw : 0..MaxDraw,
                       restricting_functions :
                           {[form |-> "none"]}
                               \cup [form : {"single"}, val : RestrictingFunctions]
                               \cup [form : {"list"},
                                     val : SeqsUpTo(RestrictingFunctions, MaxPredicates)]]
    /\ fn_result = None
    /\ IdleExcept("fn")

GetIdsOfRandomNeuronsOfType ==
    /\ fn_result = None
    /\ LET neurons_left == neurons_left_of(fn_args.self, fn_args.restricting_functions)
       IN  \/ /\ fn_args.n_to_draw > Len(neurons_left)
              /\ fn_result' = Raise("ValueError")
           \/ /\ fn_args.n_to_draw <= Len(neurons_left)
              /\ \E drawn \in choice(neurons_left, fn_args.n_to_draw) :
                    fn_result' = [kind |-> "ok", val |-> drawn]
           \/ /\ fn_args.n_to_draw = 0
              /\ Len(neurons_left) = 0
              /\ fn_result' = Raise("ValueError")
    /\ UNCHANGED fn_args
    /\ UNCHANGED notFn

\* the ids of the network that satisfy every supplied predicate
C15_Candidates ==
    LET m == fn_args.self
        rf == fn_args.restricting_functions
        funs == IF rf.form = "none" THEN {}
                ELSE IF rf.form = "single" THEN {rf.val}
                ELSE {rf.val[k] : k \in 1..Len(rf.val)}
        holds(f, id) ==
            CASE f.fun = "is_excitatory" -> (id % (m.n_exc + m.n_inh)) < m.n_exc
              [] f.fun = "is_inhibitory" -> (id % (m.n_exc + m.n_inh)) >= m.n_exc
              [] f.fun = "is_in_layer" -> (id \div (m.n_exc + m.n_inh)) = f.layer
    IN  {id \in 0..(m.n_all_neurons - 1) : \A f \in funs : holds(f, id)}

C15_Drawn ==
    /\ fn_args.self = NeuronMask(fn_args.info)
    /\ IF fn_args.n_to_draw > Cardinality(C15_Candidates)
       THEN fn_result.kind = "raise"
       ELSE /\ fn_result.kind = "ok"
            /\ Len(fn_result.val) = fn_args.n_to_draw
            /\ \A i, j \in 1..Len(fn_result.val) :
                  i # j => fn_result.val[i] # fn_result.val[j]
            /\ \A i \in 1..Len(fn_result.val) : fn_result.val[i] \in C15_Candidates

MaxGlobalId == 4
MaxTableRows == 2

\* the table of the given (ids, target) rows, indexed 0, 1, ...
TableOfRows(rows) ==
    [k \in 1..Len(rows) |-> [index |-> k - 1, ids |-> rows[k][1], target |-> rows[k][2]]]

Tables == {TableOfRows(rows) : rows \in SeqsUpTo(((-1)..MaxGlobalId) \X (1..2), MaxTableRows)}

TableArchitectures ==
    [num_exc_neurons_per_layer : 0..MaxPerType,
     num_inh_neurons_per_layer : 0..MaxPerType,
     num_layers : 1..MaxLayers]

\* line 299 with <= for the upper end of the layer
in_layer_mask_inclusive(row, l, total_per_layer) ==
    row.ids >= l * total_per_layer /\ row.ids <= (l + 1) * total_per_layer

\* line 299: the mask of the rows of layer l
in_layer_mask(row, l, total_per_layer) ==
    row.ids >= l * total_per_layer /\ row.ids < (l + 1) * total_per_layer

split_into_layers(neuron_activity, info) ==
    LET total_per_layer == info.num_exc_neurons_per_layer + info.num_inh_neurons_per_layer
        layer(l) ==
            LET kept == SelectSeq(neuron_activity,
                                  LAMBDA r : in_layer_mask(r, l, total_per_layer))
            IN  [k \in 1..Len(kept) |-> [kept[k] EXCEPT !.ids = @ - l * total_per_layer]]
    IN  [l \in 1..info.num_layers |-> layer(l - 1)]

\* lines 88-89 written as result[i, :len(table)] = table[target_column].values
scatter_in_table_order(row, table) ==
    [k \in 1..Len(row) |-> IF k <= Len(table) THEN table[k].target ELSE row[k]]

\* lines 88-89: result[i, table.ids.values] = table[target_column].values on
\* one row of the result; the last write to a cell stays.  The ids of the
\* table are indices of the row: the two splits leave them in [0, Len(row)).
scatter(row, table) ==
    [k \in 1..Len(row) |->
        IF \E j \in 1..Len(table) : table[j].ids = k - 1
        THEN table[CHOOSE j \in 1..Len(table) :
                      /\ table[j].ids = k - 1
                      /\ \A i \in (j + 1)..Len(table) : table[i].ids # k - 1].target
        ELSE row[k]]

neuron_target_column_to_numpy_array(data, info) ==
    LET layerwise == split_into_layers(data, info)
        zeros(n) == [k \in 1..n |-> 0]
        parts(i) == split_exc_inh(layerwise[i], info)
    IN  [kind |-> "ok",
         result_exc |-> [i \in 1..info.num_layers |->
                            scatter(zeros(info.num_exc_neurons_per_layer),
                                    parts(i).excitatory)],
         result_inh |-> [i \in 1..info.num_layers |->
                            scatter(zeros(info.num_inh_neurons_per_layer),
                                    parts(i).inhibitory)]]

TargetInit ==
    /\ fn_args \in [data : Tables, network_architecture : TableArchitectures]
    /\ fn_result = None
    /\ IdleExcept("fn")

NeuronTargetColumnToNumpyArray ==
    /\ fn_result = None
    /\ fn_result' = neuron_target_column_to_numpy_array(fn_args.data,
                                                        fn_args.network_architecture)
    /\ UNCHANGED fn_args
    /\ UNCHANGED notFn

C16_DistinctIds(table) ==
    \A i, j \in 1..Len(table) : i # j => table[i].ids # table[j].ids

\* the target value of the row of the table with the given id, 0 without one
C16_TargetOf(table, id) ==
    IF \E j \in 1..Len(table) : table[j].ids = id
    THEN (CHOOSE r \in {table[j] : j \in 1..Len(table)} : r.ids = id).target
    ELSE 0

\* C16: for any architecture and any table with distinct global ids the
\* call returns arrays of shape [num_layers, n_exc] and [num_layers, n_inh];
\* exc[l, k] is the target value of the row with id l*(n_exc+n_inh)+k and
\* inh[l, k] that of the row with id l*(n_exc+n_inh)+n_exc+k, 0 where the
\* table has no such row.
C16_ScatteredByGlobalId ==
    LET info == fn_args.network_architecture
        n_exc == info.num_exc_neurons_per_layer
        n_inh == info.num_inh_neurons_per_layer
    IN  (fn_result.kind # "none" /\ C16_DistinctIds(fn_args.data)) =>
          /\ fn_result.kind = "ok"
          /\ Len(fn_result.result_exc) = info.num_layers
          /\ Len(fn_result.result_inh) = info.num_layers
          /\ \A l \in 0..(info.num_layers - 1) :
                /\ Len(fn_result.result_exc[l + 1]) = n_exc
                /\ Len(fn_result.result_inh[l + 1]) = n_inh
                /\ \A k \in 0..(n_exc - 1) :
                      fn_result.result_exc[l + 1][k + 1]
                         = C16_TargetOf(fn_args.data, l * (n_exc + n_inh) + k)
                /\ \A k \in 0..(n_inh - 1) :
                      fn_result.result_inh[l + 1][k + 1]
                         = C16_TargetOf(fn_args.data, l * (n_exc + n_inh) + n_exc + k)

\* C16, with the input table left as it was by the call.
C16_ScatteredAndUnmodified ==
    []C16_ScatteredByGlobalId /\ [][fn_args'.data = fn_args.data]_vars

\* On a two-layer network with one excitatory and one inhibitory neuron per
\* layer, the excitatory neuron of layer 1 and the inhibitory neuron of
\* layer 0 have been written, the other cells are 0.
C16_Witness ==
    /\ fn_result.kind = "ok"
    /\ fn_args.network_architecture = [num_exc_neurons_per_layer |-> 1,
                                       num_inh_neurons_per_layer |-> 1, num_layers |-> 2]
    /\ fn_args.data = TableOfRows(<< <<2, 1>>, <<1, 2>> >>)
    /\ fn_result.result_exc = << <<0>>, <<1>> >>
    /\ fn_result.result_inh = << <<2>>, <<0>> >>

(***************************************************************************)
(* plotting.py: plot_connection_fields.  fn_result holds the position in   *)
(* the call: the number of positions plotted and the calls made so far to  *)
(* synapse_analysis.  The drawing calls of matplotlib return nothing the   *)
(* claims look at; add_subplot is handed a float column count, which some  *)
(* matplotlib releases reject.                                             *)
(***************************************************************************)
MaxPositions == 2

Modes == {"sources", "targets", "both"}

NeuronPositions == {<<0, 0>>, <<0, 1>>, <<1, 0>>}

RaiseAt(e, line, calls) == [kind |-> "raise", err |-> e, line |-> line, calls |-> calls]

\* lines 371-376 with the last branch taken for every other mode
connection_field_or_targets(mode, position) ==
    IF mode = "sources"
    THEN [kind |-> "ok", call |-> [op |-> "receptive_field_of_neuron", pos |-> position]]
    ELSE [kind |-> "ok", call |-> [op |-> "targets_of_neuron", pos |-> position]]

\* lines 371-376: the call to synapse_analysis that mode selects
connection_field(mode, position) ==
    IF mode = "sources"
    THEN [kind |-> "ok", call |-> [op |-> "receptive_field_of_neuron", pos |-> position]]
    ELSE IF mode = "targets"
    THEN [kind |-> "ok", call |-> [op |-> "targets_of_neuron", pos |-> position]]
    ELSE Raise("ValueError")

ConnectionInit ==
    /\ fn_args \in [layer : 0..(MaxLayers - 1), is_excitatory : BOOLEAN,
                    neuron_positions : SeqsUpTo(NeuronPositions, MaxPositions),
                    network_architecture : TableArchitectures, mode : Modes]
    /\ fn_result = None
    /\ IdleExcept("fn")

\* lines 356-366
EnterPlotConnectionFields ==
    /\ fn_result = None
    /\ LET info == fn_args.network_architecture
           side == get_side_length(IF fn_args.is_excitatory
                                   THEN info.num_exc_neurons_per_layer
                                   ELSE info.num_inh_neurons_per_layer)
       IN  fn_result' = IF side.kind = "raise" THEN RaiseAt(side.err, 360, <<>>)
                        ELSE [kind |-> "loop", i |-> 0, calls |-> <<>>,
                              input_neuron_layer_side_length |-> side.val]
    /\ UNCHANGED fn_args
    /\ UNCHANGED notFn

\* lines 367-395: one pass of the loop
PlotConnectionField ==
    /\ fn_result.kind = "loop"
    /\ fn_result.i < Len(fn_args.neuron_positions)
    /\ LET pos == fn_args.neuron_positions[fn_result.i + 1]
           recpField == connection_field(fn_args.mode, <<fn_args.layer>> \o pos)
       IN  \/ fn_result' = RaiseAt("ValueError", 369, fn_result.calls)
           \/ fn_result' =
                 IF recpField.kind = "raise"
                 THEN RaiseAt(recpField.err, 376, fn_result.calls)
                 ELSE IF fn_result.input_neuron_layer_side_length = 0
                 THEN RaiseAt("ZeroDivisionError", 384,
                              Append(fn_result.calls, recpField.call))
                 ELSE [fn_result EXCEPT !.i = @ + 1,
                                        !.calls = Append(@, recpField.call)]
    /\ UNCHANGED fn_args
    /\ UNCHANGED notFn

ReturnPlotConnectionFields ==
    /\ fn_result.kind = "loop"
    /\ fn_result.i = Len(fn_args.neuron_positions)
    /\ fn_result' = [kind |-> "ok", calls |-> fn_result.calls]
    /\ UNCHANGED fn_args
    /\ UNCHANGED notFn

ConnectionNext ==
    EnterPlotConnectionFields \/ PlotConnectionField \/ ReturnPlotConnectionFields

\* the calls to synapse_analysis that C18 allows: for 'sources' the
\* receptive field of each position in order, for 'targets' its targets
C18_CallsOf(op) ==
    [k \in 1..Len(fn_args.neuron_positions) |->
        [op |-> op, pos |-> <<fn_args.layer>> \o fn_args.neuron_positions[k]]]

C18_OnlySelectedOperation ==
    fn_result.kind # "none" =>
        LET allowed == IF fn_args.mode = "sources"
                       THEN C18_CallsOf("receptive_field_of_neuron")
                       ELSE IF fn_args.mode = "targets"
                       THEN C18_CallsOf("targets_of_neuron")
                       ELSE <<>>
        IN  /\ Len(fn_result.calls) <= Len(allowed)
            /\ fn_result.calls = SubSeq(allowed, 1, Len(fn_result.calls))
            /\ fn_result.kind = "ok" /\ fn_args.mode \in {"sources", "targets"}
                  => fn_result.calls = allowed

\* C18 as stated: for any mode other than 'sources' and 'targets' and any
\* list of neuron positions, the empty one included, the call raises; mode
\* 'sources' calls only the receptive-field operation and mode 'targets'
\* only the targets-of-neuron operation, once per position in order.
C18_AsStated ==
    /\ C18_OnlySelectedOperation
    /\ (fn_result.kind \in {"ok", "raise"} /\ fn_args.mode \notin {"sources", "targets"})
          => fn_result.kind = "raise"

\* C18: the same, the call raising on any other mode for any list of at
\* least one neuron position.
C18_ModeCheckedPerPosition ==
    /\ C18_OnlySelectedOperation
    /\ (/\ fn_result.kind \in {"ok", "raise"}
        /\ fn_args.mode \notin {"sources", "targets"}
        /\ Len(fn_args.neuron_positions) >= 1)
          => fn_result.kind = "raise"

\* The mode check has raised on the first of two positions, before any
\* call to synapse_analysis.
C18_Witness ==
    /\ fn_args.mode = "both"
    /\ Len(fn_args.neuron_positions) = 2
    /\ fn_result = RaiseAt("ValueError", 376, <<>>)

(***************************************************************************)
(* plotting.py: plot_information_measure_advancement.  before and after    *)
(* are arrays of one shape [n_objects, n_layer, n_neurons]; the result is  *)
(* the list of the lines handed to layerAX.plot, in the order of the       *)
(* calls.  np.max of an array without cells raises ValueError.             *)
(***************************************************************************)
MaxPlotCells == 4
MaxToPlot == 3

PlotShapes ==
    {sh \in (1..MaxDim) \X (1..MaxDim) \X (0..MaxPlotCells) : size(sh) <= MaxPlotCells}

\* np.sort of one neuron axis: ascending
RECURSIVE np_sort(_)
np_sort(xs) ==
    IF Len(xs) = 0 THEN <<>>
    ELSE LET m == CHOOSE k \in 1..Len(xs) : \A j \in 1..Len(xs) : xs[k] <= xs[j]
         IN  <<xs[m]>> \o np_sort(SubSeq(xs, 1, m - 1) \o SubSeq(xs, m + 1, Len(xs)))

\* xs[:-n_to_plot:-1]: from the last element backwards, stopping before the
\* element at index -n_to_plot (index 0 for n_to_plot = 0)
backward_slice(xs, n_to_plot) ==
    LET n == Len(xs)
        stop == IF n_to_plot = 0 THEN 0
                ELSE IF n - n_to_plot < 0 THEN -1
                ELSE n - n_to_plot
        count == IF n - 1 - stop < 0 THEN 0 ELSE n - 1 - stop
    IN  [k \in 1..count |-> xs[n - k + 1]]

neuron_axis(array, i, layer) ==
    [k \in 1..array.shape[3] |-> array.data[<<i, layer, k - 1>>]]

plot_information_measure_advancement(before, after, n_to_plot) ==
    LET n_objects == before.shape[1]
        n_layer == before.shape[2]
        lines(layer, i) ==
            << [layer |-> layer, item |-> i, label |-> "before",
                ydata |-> backward_slice(np_sort(neuron_axis(before, i, layer)), n_to_plot)],
               [layer |-> layer, item |-> i, label |-> "after",
                ydata |-> backward_slice(np_sort(neuron_axis(after, i, layer)), n_to_plot)] >>
        RECURSIVE plotted(_)
        plotted(p) ==
            IF p = n_layer * n_objects THEN <<>>
            ELSE lines(p \div n_objects, p % n_objects) \o plotted(p + 1)
    IN  IF before.shape # after.shape THEN Raise("AssertionError")
        ELSE IF size(before.shape) = 0 THEN Raise("ValueError")
        ELSE [kind |-> "ok", plots |-> plotted(0)]

AdvancementInit ==
    /\ \E sh \in PlotShapes :
          fn_args \in [before : [shape : {sh}, data : [Indices(sh) -> CellValues]],
                       after : [shape : {sh}, data : [Indices(sh) -> CellValues]],
                       n_to_plot : 0..MaxToPlot]
    /\ fn_result = None
    /\ IdleExcept("fn")

PlotInformationMeasureAdvancement ==
    /\ fn_result = None
    /\ fn_result' = plot_information_measure_advancement(fn_args.before, fn_args.after,
                                                         fn_args.n_to_plot)
    /\ UNCHANGED fn_args
    /\ UNCHANGED notFn

\* ydata holds, in descending order, the largest values of the neuron axis
\* of array at (item, layer): its k-th point is the k-th largest value
C19_TopValues(ydata, array, item, layer) ==
    LET xs == [k \in 1..array.shape[3] |-> array.data[<<item, layer, k - 1>>]]
    IN  /\ Len(ydata) <= Len(xs)
        /\ \A k \in 1..Len(ydata) :
              /\ Cardinality({j \in 1..Len(xs) : xs[j] > ydata[k]}) < k
              /\ Cardinality({j \in 1..Len(xs) : xs[j] >= ydata[k]}) >= k

\* every (layer, item) pair has one 'before' and one 'after' line, of
\* points(n_neurons) points each, holding the top values of its neuron axis
C19_Series(points(_)) ==
    /\ fn_result.kind = "ok"
    /\ \A layer \in 0..(fn_args.before.shape[2] - 1),
          item \in 0..(fn_args.before.shape[1] - 1),
          label \in {"before", "after"} :
          LET found == {k \in 1..Len(fn_result.plots) :
                           /\ fn_result.plots[k].layer = layer
                           /\ fn_result.plots[k].item = item
                           /\ fn_result.plots[k].label = label}
              array == IF label = "before" THEN fn_args.before ELSE fn_args.after
          IN  /\ Cardinality(found) = 1
              /\ \A k \in found :
                    /\ Len(fn_result.plots[k].ydata) = points(array.shape[3])
                    /\ C19_TopValues(fn_result.plots[k].ydata, array, item, layer)

\* C19: for every (layer, item) pair the call plots for 'before' and for
\* 'after' a series of min(n_to_plot, n_neurons) points whose k-th point is
\* the k-th largest value of the neuron axis of that pair (stated for
\* arrays with at least one neuron and n_to_plot of at least 1).
C19_AsStated ==
    (/\ fn_result.kind # "none"
     /\ fn_args.n_to_plot >= 1
     /\ fn_args.before.shape[3] >= 1) =>
        LET points(n) == IF fn_args.n_to_plot < n THEN fn_args.n_to_plot ELSE n
        IN  C19_Series(points)

\* What the slice gives for arrays with cells and n_to_plot of at least 1:
\* min(n_to_plot - 1, n_neurons) points.
C19_OneFewer ==
    (/\ fn_result.kind # "none"
     /\ fn_args.n_to_plot >= 1
     /\ fn_args.before.shape[3] >= 1) =>
        LET points(n) == IF fn_args.n_to_plot - 1 < n THEN fn_args.n_to_plot - 1 ELSE n
        IN  C19_Series(points)

(***************************************************************************)
(* helper.py: split_into_layers, called on its own.                        *)
(***************************************************************************)
LayersInit ==
    /\ fn_args \in [neuron_activity : Tables, network_architecture_info : TableArchitectures]
    /\ fn_result = None
    /\ IdleExcept("fn")

SplitIntoLayers ==
    /\ fn_result = None
    /\ fn_result' = [kind |-> "ok",
                     val  |-> split_into_layers(fn_args.neuron_activity,
                                                fn_args.network_architecture_info)]
    /\ UNCHANGED fn_args
    /\ UNCHANGED notFn

\* C20: split_into_layers returns num_layers tables in layer order; a row
\* with l*total <= id < (l+1)*total is in table l only, once, with its id
\* reduced by l*total and its other columns unchanged, so every id of a
\* returned table is in [0, total); a row with an id outside
\* [0, num_layers*total) is in no table.
C20_LayerTables ==
    fn_result.kind # "none" =>
        LET t == fn_args.neuron_activity
            info == fn_args.network_architecture_info
            total == info.num_exc_neurons_per_layer + info.num_inh_neurons_per_layer
            layers == fn_result.val
            Copies(table, row) == Cardinality({k \in 1..Len(table) : table[k] = row})
            WithIndex(table, row) ==
                Cardinality({k \in 1..Len(table) : table[k].index = row.index})
        IN  /\ fn_result.kind = "ok"
            /\ Len(layers) = info.num_layers
            /\ \A l \in 0..(info.num_layers - 1) :
                  /\ \A k \in 1..Len(layers[l + 1]) :
                        /\ layers[l + 1][k].ids >= 0
                        /\ layers[l + 1][k].ids < total
                        /\ \E j \in 1..Len(t) :
                              t[j] = [layers[l + 1][k] EXCEPT !.ids = @ + l * total]
                  /\ \A j \in 1..Len(t) :
                        IF l * total <= t[j].ids /\ t[j].ids < (l + 1) * total
                        THEN /\ Copies(layers[l + 1], [t[j] EXCEPT !.ids = @ - l * total]) = 1
                             /\ WithIndex(layers[l + 1], t[j]) = 1
                        ELSE WithIndex(layers[l + 1], t[j]) = 0

\* C20, with the input table left as it was by the call.
C20_LayerTablesAndUnmodified ==
    []C20_LayerTables /\ [][fn_args'.neuron_activity = fn_args.neuron_activity]_vars

\* On a two-layer network with one excitatory and one inhibitory neuron per
\* layer, a table with the last neuron of layer 1 before the first neuron
\* of layer 0 has been split.
C20_Witness ==
    /\ fn_result.kind = "ok"
    /\ fn_args.network_architecture_info = [num_exc_neurons_per_layer |-> 1,
                                            num_inh_neurons_per_layer |-> 1,
                                            num_layers |-> 2]
    /\ fn_args.neuron_activity = TableOfRows(<< <<3, 1>>, <<0, 2>> >>)
    /\ fn_result.val = << <<[index |-> 1, ids |-> 0, target |-> 2]>>,
                          <<[index |-> 0, ids |-> 1, target |-> 1]>> >>

(***************************************************************************)
(* helper.py: split_into_populations, with population_name at its default  *)
(* "L{layer}_{type}", next to id_to_position on the same architectures.    *)
(* The returned dict is the function from its keys to the tables.          *)
(***************************************************************************)
\* lines 470, 476: population_name.format(layer=layer, type=type)
format_population_name(layer, type) == "L" \o ToString(layer) \o "_" \o type

\* lines 471-472 with | for &
population_rows_of_either(neuron_values, in_layer, of_type) ==
    boolean_index(neuron_values,
                  [k \in 1..Len(neuron_values) |-> in_layer[k] \/ of_type[k]])

\* lines 471-472, 477-478: neuron_values[in_layer & of_type]
population_rows(neuron_values, in_layer, of_type) ==
    boolean_index(neuron_values,
                  [k \in 1..Len(neuron_values) |-> in_layer[k] /\ of_type[k]])

\* lines 461-481.  The three mask methods raise on the same ids, so the
\* first call of the loop, is_in_layer for layer 0, is the one that raises.
split_into_populations(neuron_values, network_architecture_info) ==
    LET neuron_mask == NeuronMask(network_architecture_info)
        neuron_ids == [k \in 1..Len(neuron_values) |-> neuron_values[k].ids]
        layers == 0..(network_architecture_info.num_layers - 1)
        types == {"exc", "inh"}
        of_type(type) == IF type = "exc" THEN is_excitatory(neuron_mask, neuron_ids)
                         ELSE is_inhibitory(neuron_mask, neuron_ids)
        values(layer, type) ==
            population_rows(neuron_values,
                            is_in_layer(neuron_mask, neuron_ids, layer).val,
                            of_type(type).val)
        names == {format_population_name(l, t) : l \in layers, t \in types}
    IN  IF is_in_layer(neuron_mask, neuron_ids, 0).kind = "raise"
        THEN is_in_layer(neuron_mask, neuron_ids, 0)
        ELSE [kind |-> "ok",
              val  |-> [name \in names |->
                           LET lt == CHOOSE p \in layers \X types :
                                        format_population_name(p[1], p[2]) = name
                           IN  values(lt[1], lt[2])]]

PopulationsInit ==
    /\ \E info \in MaskArchitectures :
          \/ \E id \in (-1)..MaxGlobalId, pos_as_2d \in BOOLEAN :
                fn_args = [call |-> "id_to_position", id |-> id,
                           network_info |-> info, pos_as_2d |-> pos_as_2d]
          \/ \E neuron_values \in Tables :
                fn_args = [call |-> "split_into_populations",
                           neuron_values |-> neuron_values,
                           network_info |-> info]
    /\ fn_result = None
    /\ IdleExcept("fn")

PopulationIdToPosition ==
    /\ fn_result = None
    /\ fn_args.call = "id_to_position"
    /\ fn_result' = id_to_position(fn_args.id, fn_args.network_info, fn_args.pos_as_2d)
    /\ UNCHANGED fn_args
    /\ UNCHANGED notFn

SplitIntoPopulations ==
    /\ fn_result = None
    /\ fn_args.call = "split_into_populations"
    /\ fn_result' = split_into_populations(fn_args.neuron_values, fn_args.network_info)
    /\ UNCHANGED fn_args
    /\ UNCHANGED notFn

PopulationsNext == PopulationIdToPosition \/ SplitIntoPopulations

\* a global id of the network: 0 <= id < num_layers * (n_exc + n_inh)
C21_InRange(id, info) ==
    /\ 0 <= id
    /\ id < info.num_layers * (info.num_exc_neurons_per_layer
                                  + info.num_inh_neurons_per_layer)

\* The mask classifies id as id_to_position did: the same excitatory flag,
\* and in layer L exactly for L the layer of the returned position.
C21_Agree(id, info, position) ==
    LET neuron_mask == NeuronMask(info)
    IN  /\ is_excitatory(neuron_mask, <<id>>).val[1] = position.exc
        /\ \A L \in 0..info.num_layers :
              is_in_layer(neuron_mask, <<id>>, L).val[1] <=> (L = position.pos[1])

\* The returned dict has the 2*num_layers default names, and every in-range
\* row of the table is, unchanged, once in the population named after the
\* layer and type id_to_position gives its id, and in no other population.
C21_Placed(neuron_values, info, populations) ==
    LET Copies(table, row) == Cardinality({k \in 1..Len(table) : table[k] = row})
    IN  /\ DOMAIN populations =
              {format_population_name(l, t) :
                  l \in 0..(info.num_layers - 1), t \in {"exc", "inh"}}
        /\ Cardinality(DOMAIN populations) = 2 * info.num_layers
        /\ \A j \in 1..Len(neuron_values) :
              C21_InRange(neuron_values[j].ids, info) =>
                 LET p == id_to_position(neuron_values[j].ids, info, FALSE)
                     own == format_population_name(p.pos[1],
                                IF p.exc THEN "exc" ELSE "inh")
                 IN  \A name \in DOMAIN populations :
                        Copies(populations[name], neuron_values[j]) =
                            IF name = own THEN 1 ELSE 0

\* the size of the population the mask puts id in
C21_PopulationSize(id, info) ==
    IF is_excitatory(NeuronMask(info), <<id>>).val[1]
    THEN info.num_exc_neurons_per_layer
    ELSE info.num_inh_neurons_per_layer

\* C21 as stated: for every architecture and every in-range global id,
\* id_to_position returns a flag and a layer that the mask agrees with, and
\* split_into_populations puts every in-range row of its table in exactly
\* one population, the one of that layer and type, id unchanged.
C21_AsStated ==
    fn_result.kind # "none" =>
        IF fn_args.call = "id_to_position"
        THEN C21_InRange(fn_args.id, fn_args.network_info) =>
                /\ fn_result.kind = "ok"
                /\ C21_Agree(fn_args.id, fn_args.network_info, fn_result)
        ELSE (\E j \in 1..Len(fn_args.neuron_values) :
                 C21_InRange(fn_args.neuron_values[j].ids, fn_args.network_info)) =>
                /\ fn_result.kind = "ok"
                /\ C21_Placed(fn_args.neuron_values, fn_args.network_info, fn_result.val)

\* C21, where both schemes answer: for an in-range global id,
\* id_to_position raises exactly when 2-D placement is asked for and the
\* size of the id's population is not a perfect square, and otherwise
\* returns the flag and the layer the mask agrees with;
\* split_into_populations raises NotImplementedError on a table with a
\* negative id, and on any other table returns the 2*num_layers populations
\* with every in-range row in exactly the one of its layer and type, id
\* unchanged.
C21_AgreeWhereAnswered ==
    fn_result.kind # "none" =>
        IF fn_args.call = "id_to_position"
        THEN C21_InRange(fn_args.id, fn_args.network_info) =>
                /\ (fn_result.kind = "raise") <=>
                      (/\ fn_args.pos_as_2d
                       /\ ~IsSquare(C21_PopulationSize(fn_args.id, fn_args.network_info)))
                /\ fn_result.kind = "ok" =>
                      C21_Agree(fn_args.id, fn_args.network_info, fn_result)
        ELSE IF \E j \in 1..Len(fn_args.neuron_values) : fn_args.neuron_values[j].ids < 0
             THEN fn_result = Raise("NotImplementedError")
             ELSE /\ fn_result.kind = "ok"
                  /\ C21_Placed(fn_args.neuron_values, fn_args.network_info, fn_result.val)

\* On a two-layer network with one excitatory and one inhibitory neuron per
\* layer, a table with the inhibitory neuron of layer 1 before the
\* excitatory neuron of layer 0 has been split into its four populations.
C21_Witness ==
    /\ fn_args.call = "split_into_populations"
    /\ fn_args.network_info = [num_exc_neurons_per_layer |-> 1,
                               num_inh_neurons_per_layer |-> 1, num_layers |-> 2]
    /\ fn_args.neuron_values = TableOfRows(<< <<3, 1>>, <<0, 2>> >>)
    /\ fn_result.kind = "ok"
    /\ fn_result.val["L1_inh"] = <<[index |-> 0, ids |-> 3, target |-> 1]>>
    /\ fn_result.val["L0_exc"] = <<[index |-> 1, ids |-> 0, target |-> 2]>>
    /\ fn_result.val["L0_inh"] = <<>>
    /\ fn_result.val["L1_exc"] = <<>>

(***************************************************************************)
(* helper.py: object_list_2_boolean_label, applied to the objects that     *)
(* load_testing_stimuli_info returned and followed by                      *)
(* bool_label_matrix_to_mutually_exclusive_ids.  np.sum of an empty list   *)
(* is the float 0.0, which np.zeros rejects as a dimension with TypeError; *)
(* numpy releases before 1.12 only warned and took it as 0.  The operator  *)
(* is the set of results the call can have.                                *)
(***************************************************************************)
\* line 389: np.zeros((n_objects, n_stimuli), dtype=bool)
np_zeros(n_objects, n_stimuli, is_float) ==
    LET zeros == Matrix(n_objects, n_stimuli,
                        [o \in 1..n_objects |-> [s \in 1..n_stimuli |-> FALSE]])
    IN  IF is_float THEN {Raise("TypeError"), zeros} ELSE {zeros}

\* lines 386-394
object_list_2_boolean_label(object_list) ==
    LET n_objects == Len(object_list)
        n_stimuli == seq_sum([k \in 1..n_objects |-> object_list[k].count])
        marked(o) == {o.indices[k] : k \in 1..Len(o.indices)}
        assign(label_for_classifier) ==
            IF \E i \in 1..n_objects : \E s \in marked(object_list[i]) : s >= n_stimuli
            THEN Raise("IndexError")
            ELSE [label_for_classifier EXCEPT !.rows =
                     [i \in 1..n_objects |->
                         [s \in 1..n_stimuli |->
                             @[i][s] \/ (s - 1) \in marked(object_list[i])]]]
    IN  {IF zeros.kind = "raise" THEN zeros ELSE assign(zeros) :
            zeros \in np_zeros(n_objects, n_stimuli, n_objects = 0)}

\* object_list_2_boolean_label(load_testing_stimuli_info(experiment_folder))
ObjectList2BooleanLabel ==
    /\ ts_pc = "returned"
    /\ lb_pc = "idle"
    /\ bool_array' \in object_list_2_boolean_label(proper)
    /\ lb_pc' = IF bool_array'.kind = "raise" THEN "raised" ELSE "matrix"
    /\ UNCHANGED <<lb_ids, collector>>
    /\ UNCHANGED <<addrVars, spikesVars, subVars, stimVars, fnVars>>

ListingNext ==
    \/ OpenListing
    \/ ReadListingLine
    \/ ReturnProperObjects
    \/ ObjectList2BooleanLabel
    \/ BoolLabelMatrixToIds

RECURSIVE C22_Concatenated(_)
C22_Concatenated(objs) ==
    IF Len(objs) = 0 THEN <<>> ELSE objs[1].indices \o C22_Concatenated(Tail(objs))

\* The returned objects: count is the length of indices, no count is 0,
\* and the index lists in object order make up 0, 1, ..., N-1 for N the sum
\* of the counts.
C22_ObjectsWellFormed ==
    ts_pc = "returned" =>
        LET N == seq_sum([k \in 1..Len(proper) |-> proper[k].count])
        IN  /\ \A k \in 1..Len(proper) :
                  /\ proper[k].count = Len(proper[k].indices)
                  /\ proper[k].count # 0
            /\ C22_Concatenated(proper) = [s \in 1..N |-> s - 1]

\* The conversions of the returned objects: the matrix has exactly one
\* true entry in every stimulus column, neither conversion fails, and the
\* ids returned are each object's indices.
C22_Conversions ==
    /\ lb_pc # "raised"
    /\ lb_pc \in {"matrix", "done"} =>
          /\ bool_array.shape[1] = Len(proper)
          /\ \A s \in 1..bool_array.shape[2] :
                Cardinality({o \in 1..bool_array.shape[1] : bool_array.rows[o][s]}) = 1
    /\ lb_pc = "done" =>
          collector.val = [o \in 1..Len(proper) |-> proper[o].indices]

\* C22 as stated: for any sequence of lines the returned objects are well
\* formed, object_list_2_boolean_label of them has exactly one true entry
\* in every stimulus column, and bool_label_matrix_to_mutually_exclusive_ids
\* of that matrix never fails and returns each object's indices.
C22_AsStated == C22_ObjectsWellFormed /\ C22_Conversions

\* The same for a listing with at least one line that is no delimiter.
C22_OfLabelledListing == C22_ObjectsWellFormed /\ (proper # <<>> => C22_Conversions)

C22_ReachedLabelled ==
    /\ lb_pc = "done"
    /\ Len(proper) = 2
    /\ collector.val = << <<0, 1>>, <<2>> >>

(***************************************************************************)
(* Specifications: one per subsystem; the other subsystems stay idle.      *)
(***************************************************************************)
SpecAddr == AddrInit /\ [][AddrNext]_vars

SpecSpikes == SpikesInit /\ [][SpikesNext]_vars

SpecSub == SubInit /\ [][SubNext]_vars

SpecStim == StimInit /\ [][StimNext]_vars

SpecLabel == LabelInit /\ [][LabelNext]_vars

SpecSplit == SplitInit /\ [][SplitExcInh]_vars

SpecWindows == WindowsInit /\ [][SplitStimuli]_vars

SpecRandom == RandomInit /\ [][RandomLabel]_vars

SpecReshape == ReshapeInit /\ [][ReshapeInto2d]_vars

SpecSide == SideInit /\ [][SideNext]_vars

SpecPlace == PlaceInit /\ [][PlaceNext]_vars

SpecZ == ZInit /\ [][ZTransform]_vars

SpecMask == MaskInit /\ [][MaskNext]_vars

SpecDraw == DrawInit /\ [][GetIdsOfRandomNeuronsOfType]_vars

SpecTarget == TargetInit /\ [][NeuronTargetColumnToNumpyArray]_vars

SpecConnection == ConnectionInit /\ [][ConnectionNext]_vars

SpecAdvancement == AdvancementInit /\ [][PlotInformationMeasureAdvancement]_vars

SpecLayers == LayersInit /\ [][SplitIntoLayers]_vars

SpecPopulations == PopulationsInit /\ [][PopulationsNext]_vars

SpecListing == StimInit /\ [][ListingNext]_vars
====
